---- MODULE Spec2Model ----
(***************************************************************************)
(* Model of the mesh watertightness analysis and repair library of         *)
(* SDFGenFast (namespace meshio: weld_vertices, analyze_mesh, repair_mesh, *)
(* triangulate_hole).                                                      *)
(*                                                                         *)
(* A mesh is a vertex list (positions) and a face list (triples of         *)
(* 0-based vertex indices, as in the source).  Positions are points of the *)
(* integer lattice and tolerances are integers, so that every float        *)
(* operation of the source used here (difference, product, floor of a      *)
(* quotient, comparison of a length with the tolerance) is exact:          *)
(*   length(d) < tol       is  d.d < tol*tol                               *)
(*   floor(v * (1/tol))    is  the floor of the quotient v / tol           *)
(*   length(n) < 1e-10f    is  n = (0,0,0)                                 *)
(*                                                                         *)
(* The second part models main() of the command-line program SDFGen, which *)
(* loads a mesh, welds and analyzes it, repairs it on request, derives the *)
(* grid from the command line and the bounding box, and calls              *)
(* make_level_set3 and the SDF writer.  Its float values are exact         *)
(* fractions, with infinity and NaN for the divisions by zero.             *)
(***************************************************************************)
EXTENDS Integers, Sequences, FiniteSets, TLC

VARIABLES
    vertices,       \* std::vector<Vec3f>: the caller's vertex list
    faces,          \* std::vector<Vec3ui>: the caller's face list
    pre,            \* the mesh handed to the last call, [v |-> ..., f |-> ...]
    last,           \* the last call made: [op, tol, ret]
    prev,           \* the call made before it
    ncalls,         \* how many calls were made
    vertex_map,     \* weld_vertices' vertex_map at its return (<<>> otherwise)
    analysis,       \* the MeshAnalysis of the last analysis run by a call
    boundary_loops, \* DetailedAnalysis.boundary_loops of that analysis
    out,            \* what the last call printed, as message tags
    pc,             \* the command-line program: where main() is ("none": not run)
    args,           \* its parsed command line: is_stl, dimensions, fix_mesh, padding
    padding,        \* int padding
    dx,             \* float dx
    target,         \* target_nx, target_ny, target_nz
    min_box,        \* Vec3f min_box
    max_box,        \* Vec3f max_box
    sizes,          \* Vec3ui sizes
    level_set,      \* the arguments of the call of make_level_set3 and its phi_grid
    sdf_file,       \* the output file written
    exit_code,      \* the exit status of the process
    steps,          \* the steps main() has taken, in order
    hole_pc,        \* a call of triangulate_hole: where it is ("none": no call)
    hole_loop,      \* its parameter loop
    hole_remaining, \* its std::vector<unsigned int> remaining
    hole_result,    \* its std::vector<Vec3ui> result
    job_pc,         \* an SDF job (make_level_set): where it is ("none": no job)
    job,            \* its arguments: triangles, vertices, origin, dx, nx, ny,
                    \* nz, exact_band
    workers,        \* its worker pool: for each worker the triangles of its
                    \* batch it has still to do and whether it has counted
                    \* its columns
    scratch,        \* the private scratch pair (phi_w, closest_w) of each worker
    phi,            \* the distance array
    closest,        \* the closest-triangle array
    inside          \* the intersection-parity array

libVars == <<pre, last, prev, ncalls, vertex_map, boundary_loops, out>>

cliVars == <<pc, args, padding, dx, target, min_box, max_box, sizes, level_set,
             sdf_file, exit_code, steps>>

holeVars == <<hole_pc, hole_loop, hole_remaining, hole_result>>

jobVars == <<job_pc, job, workers, scratch, phi, closest, inside>>

vars == <<vertices, faces, pre, last, prev, ncalls, vertex_map, analysis,
          boundary_loops, out, pc, args, padding, dx, target, min_box, max_box,
          sizes, level_set, sdf_file, exit_code, steps,
          hole_pc, hole_loop, hole_remaining, hole_result,
          job_pc, job, workers, scratch, phi, closest, inside>>

---------------------------------------------------------------------------
(* Bounds of the model *)

\* calls made in one run
MaxOps == 2
\* vertices of a freely chosen vertex list
MaxVerts == 3
\* largest welding tolerance tried (0 = welding disabled)
MaxTol == 2
\* faces of a freely chosen face list passed to analyze_mesh
MaxAFaces == 3
\* the longest loop passed to triangulate_hole
MaxLoop == 5

\* the "no vertex" mark of the boundary walk.  The source's value is 2^32 - 1;
\* the walk only compares it for equality with vertex indices, and the model
\* uses the largest 32-bit signed integer, which no vertex index reaches.
UINT_MAX == 2147483647

---------------------------------------------------------------------------
(* Sequences and small helpers *)

Min2(a, b) == IF a < b THEN a ELSE b
Max2(a, b) == IF a < b THEN b ELSE a

SeqsUpTo(S, n) == UNION {[1..k -> S] : k \in 0..n}

\* the index triples a face over n vertices can hold
Triples(n) == {<<a, b, c>> : a \in 0..(n-1), b \in 0..(n-1), c \in 0..(n-1)}

\* vertices[i] for a 0-based index i
At(vs, i) == vs[i + 1]

Sub3(a, b) == <<a[1] - b[1], a[2] - b[2], a[3] - b[3]>>

---------------------------------------------------------------------------
(* Vec3f helpers of mesh_repair.cpp *)

cross(a, b) == <<a[2]*b[3] - a[3]*b[2],
                 a[3]*b[1] - a[1]*b[3],
                 a[1]*b[2] - a[2]*b[1]>>

\* length(v)^2; length itself is the square root of this
SqLength(v) == v[1]*v[1] + v[2]*v[2] + v[3]*v[3]

\* length(v) < bound, for bound > 0
LengthLess(v, bound) == SqLength(v) < bound * bound

---------------------------------------------------------------------------
(* weld_vertices *)

\* (int)std::floor(c * inv_tol) with inv_tol = 1.0f / tolerance
Bucket(c, tolerance) == c \div tolerance

GridKey(v, tolerance) ==
    <<Bucket(v[1], tolerance), Bucket(v[2], tolerance), Bucket(v[3], tolerance)>>

\* the 27 neighbouring cells in the order of the dx, dy, dz loops
CellOffsets ==
    [k \in 1..27 |-> <<((k-1) \div 9) - 1, (((k-1) \div 3) % 3) - 1, ((k-1) % 3) - 1>>]

\* the scan of one cell's list: first idx whose vertex is within tolerance, or -1
RECURSIVE ScanCell(_, _, _, _, _)
ScanCell(cell, j, new_vertices, v, tolerance) ==
    IF j > Len(cell) THEN -1
    ELSE IF LengthLess(Sub3(At(new_vertices, cell[j]), v), tolerance) THEN cell[j]
    ELSE ScanCell(cell, j + 1, new_vertices, v, tolerance)

\* FindIdx looking only into the vertex's own cell (dx = dy = dz = 0)
FindIdxOwnCell(k, g, grid, new_vertices, v, tolerance) ==
    IF g \in DOMAIN grid
    THEN ScanCell(grid[g], 1, new_vertices, v, tolerance)
    ELSE -1

\* the three nested loops over the neighbouring cells, stopping at the first hit
RECURSIVE FindIdx(_, _, _, _, _, _)
FindIdx(k, g, grid, new_vertices, v, tolerance) ==
    IF k > 27 THEN -1
    ELSE LET key == <<g[1] + CellOffsets[k][1], g[2] + CellOffsets[k][2],
                      g[3] + CellOffsets[k][3]>>
             hit == IF key \in DOMAIN grid
                    THEN ScanCell(grid[key], 1, new_vertices, v, tolerance)
                    ELSE -1
         IN  IF hit >= 0 THEN hit
             ELSE FindIdx(k + 1, g, grid, new_vertices, v, tolerance)

\* map[key].push_back(x) on a std::map of vectors
MapPush(map, key, x) ==
    IF key \in DOMAIN map
    THEN [map EXCEPT ![key] = Append(@, x)]
    ELSE (key :> <<x>>) @@ map

WeldStart ==
    [new_vertices |-> <<>>, vertex_map |-> <<>>, grid |-> <<>>, welded |-> 0]

\* WeldStep with the merged vertex's position written over the kept one
\* (last occurrence wins)
WeldStepLastWins(st, v, tolerance) ==
    LET g == GridKey(v, tolerance)
        found_idx == FindIdx(1, g, st.grid, st.new_vertices, v, tolerance)
    IN  IF found_idx >= 0
        THEN [st EXCEPT !.new_vertices[found_idx + 1] = v,
                        !.vertex_map = Append(@, found_idx),
                        !.welded = @ + 1]
        ELSE LET new_idx == Len(st.new_vertices)
             IN  [new_vertices |-> Append(st.new_vertices, v),
                  vertex_map   |-> Append(st.vertex_map, new_idx),
                  grid         |-> MapPush(st.grid, g, new_idx),
                  welded       |-> st.welded]

\* WeldStep with the welded++ of the merge branch left out
WeldStepNoCount(st, v, tolerance) ==
    LET g == GridKey(v, tolerance)
        found_idx == FindIdx(1, g, st.grid, st.new_vertices, v, tolerance)
    IN  IF found_idx >= 0
        THEN [st EXCEPT !.vertex_map = Append(@, found_idx)]
        ELSE LET new_idx == Len(st.new_vertices)
             IN  [new_vertices |-> Append(st.new_vertices, v),
                  vertex_map   |-> Append(st.vertex_map, new_idx),
                  grid         |-> MapPush(st.grid, g, new_idx),
                  welded       |-> st.welded]

\* one iteration of the loop over the input vertices
WeldStep(st, v, tolerance) ==
    LET g == GridKey(v, tolerance)
        found_idx == FindIdx(1, g, st.grid, st.new_vertices, v, tolerance)
    IN  IF found_idx >= 0
        THEN [st EXCEPT !.vertex_map = Append(@, found_idx),
                        !.welded = @ + 1]
        ELSE LET new_idx == Len(st.new_vertices)
             IN  [new_vertices |-> Append(st.new_vertices, v),
                  vertex_map   |-> Append(st.vertex_map, new_idx),
                  grid         |-> MapPush(st.grid, g, new_idx),
                  welded       |-> st.welded]

\* the loop over the input vertices (each iteration's record is evaluated,
\* by the test on welded, before the next iteration starts)
RECURSIVE WeldLoop(_, _, _, _)
WeldLoop(st, vs, i, tolerance) ==
    IF i > Len(vs) THEN st
    ELSE LET nxt == WeldStep(st, vs[i], tolerance)
         IN  IF nxt.welded >= 0 THEN WeldLoop(nxt, vs, i + 1, tolerance) ELSE nxt

\* face[k] = vertex_map[face[k]]
RemapFace(face, vmap) == <<At(vmap, face[1]), At(vmap, face[2]), At(vmap, face[3])>>

\* the test that keeps a face in valid_faces
ValidFace(face) == face[1] # face[2] /\ face[2] # face[3] /\ face[1] # face[3]

RECURSIVE ValidFaces(_, _, _)
ValidFaces(fs, vmap, i) ==
    IF i > Len(fs) THEN <<>>
    ELSE LET face == RemapFace(fs[i], vmap)
         IN  (IF ValidFace(face) THEN <<face>> ELSE <<>>) \o ValidFaces(fs, vmap, i + 1)

\* weld_vertices(vertices, faces, tolerance): the lists and the value returned
WeldVertices(vs, fs, tolerance) ==
    IF tolerance <= 0
    THEN [v |-> vs, f |-> fs, ret |-> 0, vertex_map |-> <<>>]
    ELSE LET st == WeldLoop(WeldStart, vs, 1, tolerance)
         IN  [v |-> st.new_vertices,
              f |-> ValidFaces(fs, st.vertex_map, 1),
              ret |-> st.welded,
              vertex_map |-> st.vertex_map]

---------------------------------------------------------------------------
(* analyze_mesh_detailed *)

\* struct Edge: the two indices sorted
Edge(a, b) == <<Min2(a, b), Max2(a, b)>>

\* Edge::operator<
EdgeLess(e, o) == IF e[1] # o[1] THEN e[1] < o[1] ELSE e[2] < o[2]

\* the keys of a std::map<Edge, ...> in iteration order
RECURSIVE SortedEdges(_)
SortedEdges(S) ==
    IF S = {} THEN <<>>
    ELSE LET m == CHOOSE e \in S : \A o \in S : o = e \/ EdgeLess(e, o)
         IN  <<m>> \o SortedEdges(S \ {m})

\* the elements of a std::set<unsigned int> in iteration order
RECURSIVE SortedVerts(_)
SortedVerts(S) ==
    IF S = {} THEN <<>>
    ELSE LET m == CHOOSE x \in S : \A y \in S : x <= y
         IN  <<m>> \o SortedVerts(S \ {m})

\* PushTriangle without the push_back for the edge (i2, i0)
PushTriangleTwoEdges(edge_triangles, face, t) ==
    MapPush(MapPush(edge_triangles, Edge(face[1], face[2]), t),
            Edge(face[2], face[3]), t)

\* the three push_back of triangle t (0-based) into edge_triangles
PushTriangle(edge_triangles, face, t) ==
    MapPush(MapPush(MapPush(edge_triangles, Edge(face[1], face[2]), t),
                    Edge(face[2], face[3]), t),
            Edge(face[3], face[1]), t)

\* the loop "count triangles per edge"; k is the 1-based position of face t
RECURSIVE EdgeTriangles(_, _, _)
EdgeTriangles(edge_triangles, fs, k) ==
    IF k > Len(fs) THEN edge_triangles
    ELSE LET nxt == PushTriangle(edge_triangles, fs[k], k - 1)
         IN  IF DOMAIN nxt # {} THEN EdgeTriangles(nxt, fs, k + 1) ELSE nxt

ClassifyStart ==
    [boundary_edges |-> 0, non_manifold_edges |-> 0,
     boundary_vertices |-> {}, boundary_adj |-> <<>>]

\* ClassifyEdge with the adjacency of a boundary edge recorded at v1 only
ClassifyEdgeOneWay(c, e, count) ==
    IF count = 1
    THEN [boundary_edges     |-> c.boundary_edges + 1,
          non_manifold_edges |-> c.non_manifold_edges,
          boundary_vertices  |-> c.boundary_vertices \cup {e[1], e[2]},
          boundary_adj       |-> MapPush(c.boundary_adj, e[1], e[2])]
    ELSE IF count > 2
    THEN [c EXCEPT !.non_manifold_edges = @ + 1]
    ELSE c

\* the body of the loop "classify edges and build boundary adjacency"
ClassifyEdge(c, e, count) ==
    IF count = 1
    THEN [boundary_edges     |-> c.boundary_edges + 1,
          non_manifold_edges |-> c.non_manifold_edges,
          boundary_vertices  |-> c.boundary_vertices \cup {e[1], e[2]},
          boundary_adj       |-> MapPush(MapPush(c.boundary_adj, e[1], e[2]), e[2], e[1])]
    ELSE IF count > 2
    THEN [c EXCEPT !.non_manifold_edges = @ + 1]
    ELSE c

RECURSIVE Classify(_, _, _, _)
Classify(c, edge_triangles, keys, k) ==
    IF k > Len(keys) THEN c
    ELSE LET nxt == ClassifyEdge(c, keys[k], Len(edge_triangles[keys[k]]))
         IN  IF nxt.boundary_edges >= 0
             THEN Classify(nxt, edge_triangles, keys, k + 1)
             ELSE nxt

\* boundary_adj[v]
AdjOf(boundary_adj, v) == IF v \in DOMAIN boundary_adj THEN boundary_adj[v] ELSE <<>>

\* "find next unvisited boundary neighbor": the first adj of the list that is
\* not prev and is unvisited or the start, or UINT_MAX
RECURSIVE FindNext(_, _, _, _, _)
FindNext(adjs, j, prv, visited, startV) ==
    IF j > Len(adjs) THEN UINT_MAX
    ELSE IF adjs[j] # prv /\ (adjs[j] \notin visited \/ adjs[j] = startV) THEN adjs[j]
    ELSE FindNext(adjs, j + 1, prv, visited, startV)

\* the while (true) loop of one walk, from its push_back(current) on
RECURSIVE Walk(_, _, _, _, _, _)
Walk(boundary_adj, visited, loop, current, prv, startV) ==
    LET loop2 == Append(loop, current)
        visited2 == visited \cup {current}
        next == FindNext(AdjOf(boundary_adj, current), 1, prv, visited2, startV)
    IN  IF next = UINT_MAX \/ next = startV
        THEN [loop |-> loop2, visited |-> visited2]
        ELSE Walk(boundary_adj, visited2, loop2, next, current, startV)

\* FindLoops with walks of two vertices kept as loops
RECURSIVE FindLoopsKeepsPairs(_, _, _, _, _)
FindLoopsKeepsPairs(boundary_adj, starts, k, visited, loops) ==
    IF k > Len(starts) THEN loops
    ELSE IF starts[k] \in visited
    THEN FindLoopsKeepsPairs(boundary_adj, starts, k + 1, visited, loops)
    ELSE LET w == Walk(boundary_adj, visited, <<>>, starts[k], UINT_MAX, starts[k])
         IN  FindLoopsKeepsPairs(boundary_adj, starts, k + 1, w.visited,
                                 IF Len(w.loop) >= 2 THEN Append(loops, w.loop) ELSE loops)

\* the loop over boundary_vertices that collects the boundary loops
RECURSIVE FindLoops(_, _, _, _, _)
FindLoops(boundary_adj, starts, k, visited, loops) ==
    IF k > Len(starts) THEN loops
    ELSE IF starts[k] \in visited
    THEN FindLoops(boundary_adj, starts, k + 1, visited, loops)
    ELSE LET w == Walk(boundary_adj, visited, <<>>, starts[k], UINT_MAX, starts[k])
         IN  FindLoops(boundary_adj, starts, k + 1, w.visited,
                       IF Len(w.loop) >= 3 THEN Append(loops, w.loop) ELSE loops)

\* Summary with is_watertight set from the boundary edges alone
SummaryBoundaryOnly(edge_triangles, c, loops) ==
    [total_edges        |-> Cardinality(DOMAIN edge_triangles),
     boundary_edges     |-> c.boundary_edges,
     non_manifold_edges |-> c.non_manifold_edges,
     num_holes          |-> Len(loops),
     is_manifold        |-> (c.non_manifold_edges = 0),
     is_watertight      |-> (c.boundary_edges = 0)]

\* result.summary as it is returned
Summary(edge_triangles, c, loops) ==
    LET is_manifold == (c.non_manifold_edges = 0)
    IN  [total_edges        |-> Cardinality(DOMAIN edge_triangles),
         boundary_edges     |-> c.boundary_edges,
         non_manifold_edges |-> c.non_manifold_edges,
         num_holes          |-> Len(loops),
         is_manifold        |-> is_manifold,
         is_watertight      |-> (c.boundary_edges = 0 /\ is_manifold)]

\* analyze_mesh_detailed(vertices, faces); the vertex positions are not read
AnalyzeMeshDetailed(vs, fs) ==
    LET edge_triangles == EdgeTriangles(<<>>, fs, 1)
        c == Classify(ClassifyStart, edge_triangles,
                      SortedEdges(DOMAIN edge_triangles), 1)
        loops == FindLoops(c.boundary_adj, SortedVerts(c.boundary_vertices), 1, {}, <<>>)
    IN  [summary |-> Summary(edge_triangles, c, loops),
         edge_triangles |-> edge_triangles,
         boundary_loops |-> loops]

\* analyze_mesh(vertices, faces)
AnalyzeMesh(vs, fs) == AnalyzeMeshDetailed(vs, fs).summary

---------------------------------------------------------------------------
(* triangulate_hole and repair_mesh *)

\* remaining.erase(remaining.begin() + i)
EraseAt(remaining, i) ==
    SubSeq(remaining, 1, i) \o SubSeq(remaining, i + 2, Len(remaining))

\* the triangle (remaining[prev], remaining[i], remaining[next]) tried at
\* position i of the remaining polygon
EarAt(remaining, i) ==
    LET n == Len(remaining)
    IN  <<At(remaining, (i + n - 1) % n), At(remaining, i), At(remaining, (i + 1) % n)>>

\* the test the ear loop skips a position on: length(normal) < 1e-10f
Degenerate(tri, vs) ==
    LET v0 == At(vs, tri[1])
        v1 == At(vs, tri[2])
        v2 == At(vs, tri[3])
        edge1 == Sub3(v1, v0)
        edge2 == Sub3(v2, v1)
        normal == cross(edge1, edge2)
    IN  normal = <<0, 0, 0>>

\* FindEar searching from the last position down: the last position that is
\* not skipped, or -1
RECURSIVE FindEarFromEnd(_, _, _)
FindEarFromEnd(remaining, i, vs) ==
    IF i >= Len(remaining) THEN -1
    ELSE IF Degenerate(EarAt(remaining, Len(remaining) - 1 - i), vs)
         THEN FindEarFromEnd(remaining, i + 1, vs)
    ELSE Len(remaining) - 1 - i

\* the first position from i on that is not skipped, or -1 (ear_found false)
RECURSIVE FindEar(_, _, _)
FindEar(remaining, i, vs) ==
    IF i >= Len(remaining) THEN -1
    ELSE IF Degenerate(EarAt(remaining, i), vs) THEN FindEar(remaining, i + 1, vs)
    ELSE i

\* the while loop of triangulate_hole
RECURSIVE ClipEars(_, _, _)
ClipEars(remaining, result, vs) ==
    IF Len(remaining) <= 3 THEN [remaining |-> remaining, result |-> result]
    ELSE LET i == FindEar(remaining, 0, vs)
         IN  IF i >= 0
             THEN ClipEars(EraseAt(remaining, i),
                           Append(result, EarAt(remaining, i)), vs)
             ELSE ClipEars(EraseAt(remaining, 1),
                           Append(result, <<remaining[1], remaining[2], remaining[3]>>), vs)

\* a variant of triangulate_hole that forgets the last triangle
TriangulateHoleNoLast(loop, vs) ==
    IF Len(loop) < 3 THEN <<>>
    ELSE ClipEars(loop, <<>>, vs).result

\* triangulate_hole(loop, vertices)
TriangulateHole(loop, vs) ==
    IF Len(loop) < 3 THEN <<>>
    ELSE LET c == ClipEars(loop, <<>>, vs)
         IN  IF Len(c.remaining) = 3
             THEN Append(c.result, <<c.remaining[1], c.remaining[2], c.remaining[3]>>)
             ELSE c.result

\* a variant of the fill loop that puts the new triangles before the faces
RECURSIVE FillHolesPrepend(_, _, _, _, _)
FillHolesPrepend(loops, k, fs, vs, holes_filled) ==
    IF k > Len(loops) THEN [f |-> fs, holes_filled |-> holes_filled]
    ELSE FillHolesPrepend(loops, k + 1, TriangulateHole(loops[k], vs) \o fs, vs, holes_filled + 1)

\* the fill loop of repair_mesh from loop k on
RECURSIVE FillHoles(_, _, _, _, _)
FillHoles(loops, k, fs, vs, holes_filled) ==
    IF k > Len(loops) THEN [f |-> fs, holes_filled |-> holes_filled]
    ELSE FillHoles(loops, k + 1, fs \o TriangulateHole(loops[k], vs), vs, holes_filled + 1)

\* a line written to std::cout or std::cerr, with the number it carries
Line(text, n) == [text |-> text, n |-> n]

\* the lists, the value returned and the lines written by a call that leaves
\* the welded mesh w with the face list fs
RepairResult(w, fs, ret, lines) ==
    [v |-> w.v, f |-> fs, ret |-> ret,
     vertex_map |-> w.vertex_map, welded |-> w.ret, out |-> lines]

\* "Verify fix": the last line written, after the analysis of the filled mesh
VerifyLine(after) ==
    IF after.is_watertight
    THEN Line("Mesh is now watertight", 0)
    ELSE Line("WARNING: Mesh still has holes after repair", after.num_holes)

\* repair_mesh once the holes are filled
RepairFilled(w, filled, lines) ==
    RepairResult(w, filled.f, filled.holes_filled,
                 Append(Append(lines, Line("Filled holes", filled.holes_filled)),
                        VerifyLine(AnalyzeMesh(w.v, filled.f))))

\* repair_mesh once the welded mesh w is analyzed as a
RepairAnalyzed(w, a, lines) ==
    IF a.summary.is_watertight
    THEN RepairResult(w, w.f, 0,
                      Append(lines, Line("Mesh is already watertight, no repair needed", 0)))
    ELSE RepairFilled(w, FillHoles(a.boundary_loops, 1, w.f, w.v, 0),
                      IF a.summary.non_manifold_edges > 0
                      THEN Append(lines, Line("WARNING: Mesh has non-manifold edges, repair may not succeed", 0))
                      ELSE lines)

\* repair_mesh after its welding step, which merged w.ret vertices
RepairWelded(w) ==
    RepairAnalyzed(w, AnalyzeMeshDetailed(w.v, w.f),
                   IF w.ret > 0 THEN <<Line("Welded duplicate vertices", w.ret)>> ELSE <<>>)

\* the result with the welded vertices added to the value returned
AddWelded(r) == [r EXCEPT !.ret = @ + r.welded]

\* a variant of repair_mesh that adds the welded vertices to its result
RepairMeshCountsWelded(vs, fs, weld_tolerance) ==
    AddWelded(RepairWelded(IF weld_tolerance > 0
                           THEN WeldVertices(vs, fs, weld_tolerance)
                           ELSE [v |-> vs, f |-> fs, ret |-> 0, vertex_map |-> <<>>]))

\* repair_mesh(vertices, faces, weld_tolerance)
RepairMesh(vs, fs, weld_tolerance) ==
    RepairWelded(IF weld_tolerance > 0
                 THEN WeldVertices(vs, fs, weld_tolerance)
                 ELSE [v |-> vs, f |-> fs, ret |-> 0, vertex_map |-> <<>>])

---------------------------------------------------------------------------
(* float arithmetic of main(): a value is a fraction n/d in lowest terms   *)
(* with d > 0, or one of the IEEE values a division by zero produces:      *)
(* +infinity (n = 1, d = 0), -infinity (n = -1, d = 0), NaN (n = 0,        *)
(* d = 0).  Rounding is not modelled: the operations are exact.            *)

Abs(x) == IF x < 0 THEN -x ELSE x

RECURSIVE GCD(_, _)
GCD(a, b) == IF b = 0 THEN a ELSE GCD(b, a % b)

\* the float n/d
Float(n, d) ==
    IF d = 0 THEN [n |-> IF n > 0 THEN 1 ELSE IF n < 0 THEN -1 ELSE 0, d |-> 0]
    ELSE LET g == GCD(Abs(n), Abs(d))
             s == IF d < 0 THEN -1 ELSE 1
         IN  [n |-> s * (n \div g), d |-> s * (d \div g)]

\* conversion of an int to float
FromInt(i) == [n |-> i, d |-> 1]

NaN == [n |-> 0, d |-> 0]
Infinity == [n |-> 1, d |-> 0]

IsNaN(x) == x.d = 0 /\ x.n = 0
IsFinite(x) == x.d > 0

FNeg(x) == [n |-> -x.n, d |-> x.d]

FAdd(a, b) ==
    IF a.d = 0 /\ b.d = 0
    THEN (IF a.n = b.n THEN a ELSE NaN)
    ELSE Float(a.n * b.d + b.n * a.d, a.d * b.d)

FSub(a, b) == FAdd(a, FNeg(b))

FMul(a, b) == Float(a.n * b.n, a.d * b.d)

FDiv(a, b) == Float(a.n * b.d, a.d * b.n)

\* a < b; false when either is NaN
FLess(a, b) ==
    IF IsNaN(a) \/ IsNaN(b) THEN FALSE
    ELSE IF a.d = 0 /\ b.d = 0 THEN a.n < b.n
    ELSE a.n * b.d < b.n * a.d

FLeq(a, b) == ~IsNaN(a) /\ ~IsNaN(b) /\ ~FLess(b, a)

\* std::max(a, b): (a < b) ? b : a
FMax(a, b) == IF FLess(a, b) THEN b ELSE a

\* the outcomes of a float-to-int conversion whose value no int holds
\* (undefined behaviour): 0, or the bit pattern 0x80000000
IntUndefined == {0, -UINT_MAX - 1}

\* the outcomes of a float-to-unsigned conversion whose value no unsigned
\* holds (undefined behaviour)
UnsignedUndefined == {0, UINT_MAX}

\* truncation toward zero of a finite value
Trunc(x) == IF x.n >= 0 THEN x.n \div x.d ELSE -((-x.n) \div x.d)

\* (int)x
IntOf(x) == IF IsFinite(x) THEN {Trunc(x)} ELSE IntUndefined

\* the conversion of x to unsigned int
UnsignedOf(x) ==
    IF IsFinite(x) /\ Trunc(x) >= 0 THEN {Trunc(x)} ELSE UnsignedUndefined

\* the conversion of the unsigned int holding the bits of the int i to float;
\* for i < 0 that is 2^32 + i, which stands here as +infinity
UnsignedToFloat(i) == IF i >= 0 THEN FromInt(i) ELSE Infinity

\* Vec3f operations, componentwise
V3Add(a, b) == <<FAdd(a[1], b[1]), FAdd(a[2], b[2]), FAdd(a[3], b[3])>>
V3Sub(a, b) == <<FSub(a[1], b[1]), FSub(a[2], b[2]), FSub(a[3], b[3])>>
V3Scale(a, k) == <<FMul(a[1], k), FMul(a[2], k), FMul(a[3], k)>>

---------------------------------------------------------------------------
(* The state machine: a caller holding one mesh and calling the library *)

\* MeshAnalysis as default-constructed
NoAnalysis ==
    [total_edges |-> 0, boundary_edges |-> 0, non_manifold_edges |-> 0,
     num_holes |-> 0, is_manifold |-> FALSE, is_watertight |-> FALSE]

\* no call made yet
NoCall == [op |-> "none", tol |-> 0, ret |-> 0]

Tolerances == 0..MaxTol

\* positions around the origin: equal, closer than 2, exactly 2 apart, in
\* neighbouring cells of the welding grid, and with negative coordinates
Points == {<<0, 0, 0>>, <<1, 0, 0>>, <<2, 0, 0>>, <<-1, -1, -1>>}

\* main() of the command-line program before it is run, with the values its
\* declarations give
NoArgs == [is_stl |-> FALSE, dimensions |-> <<>>, fix_mesh |-> FALSE, padding |-> 1]

NoBox == <<FromInt(0), FromInt(0), FromInt(0)>>

NoLevelSet ==
    [called |-> FALSE, faceList |-> <<>>, vertList |-> <<>>, origin |-> NoBox,
     dx |-> FromInt(0), ni |-> 0, nj |-> 0, nk |-> 0, phi_grid |-> <<0, 0, 0>>]

NoFile ==
    [written |-> FALSE, dims |-> <<0, 0, 0>>, origin |-> NoBox, dx |-> FromInt(0)]

Locals(a) ==
    /\ args = a
    /\ padding = a.padding
    /\ dx = FromInt(0)
    /\ target = <<0, 0, 0>>
    /\ min_box = NoBox
    /\ max_box = NoBox
    /\ sizes = <<0, 0, 0>>
    /\ level_set = NoLevelSet
    /\ sdf_file = NoFile
    /\ exit_code = 0
    /\ steps = <<>>

NotRun == pc = "none" /\ Locals(NoArgs)

\* no call of triangulate_hole is being followed
NoHole ==
    hole_pc = "none" /\ hole_loop = <<>> /\ hole_remaining = <<>> /\ hole_result = <<>>

\* the lists of a caller that has made no call yet
Idle(vs, fs) ==
    /\ vertices = vs
    /\ faces = fs
    /\ pre = [v |-> vs, f |-> fs]
    /\ last = NoCall
    /\ prev = NoCall
    /\ ncalls = 0
    /\ vertex_map = <<>>
    /\ analysis = NoAnalysis
    /\ boundary_loops = <<>>
    /\ out = <<>>
    /\ NotRun

\* no SDF job is being followed
NoJob ==
    /\ job_pc = "none"
    /\ job = [triangles |-> <<>>, vertices |-> <<>>, origin |-> <<0, 0, 0>>, dx |-> 0,
              nx |-> 0, ny |-> 0, nz |-> 0, exact_band |-> 1]
    /\ workers = <<>>
    /\ scratch = <<>>
    /\ phi = <<>>
    /\ closest = <<>>
    /\ inside = <<>>

Start(vs, fs) == Idle(vs, fs) /\ NoHole /\ NoJob

\* create_cube_stl_style: every triangle with three vertices of its own
StlCubeVertices ==
    << <<0,0,0>>, <<1,1,0>>, <<1,0,0>>,   <<0,0,0>>, <<0,1,0>>, <<1,1,0>>,
       <<0,0,1>>, <<1,0,1>>, <<1,1,1>>,   <<0,0,1>>, <<1,1,1>>, <<0,1,1>>,
       <<0,0,0>>, <<1,0,0>>, <<1,0,1>>,   <<0,0,0>>, <<1,0,1>>, <<0,0,1>>,
       <<1,1,0>>, <<0,1,0>>, <<0,1,1>>,   <<1,1,0>>, <<0,1,1>>, <<1,1,1>>,
       <<0,0,0>>, <<0,0,1>>, <<0,1,1>>,   <<0,0,0>>, <<0,1,1>>, <<0,1,0>>,
       <<1,0,0>>, <<1,1,0>>, <<1,1,1>>,   <<1,0,0>>, <<1,1,1>>, <<1,0,1>> >>

StlCubeFaces == [t \in 1..12 |-> <<3*(t-1), 3*(t-1) + 1, 3*(t-1) + 2>>]

\* create_watertight_cube: 8 vertices, 12 triangles
CubeVertices ==
    << <<0,0,0>>, <<1,0,0>>, <<1,1,0>>, <<0,1,0>>,
       <<0,0,1>>, <<1,0,1>>, <<1,1,1>>, <<0,1,1>> >>

CubeFaces ==
    << <<0,2,1>>, <<0,3,2>>,   <<4,5,6>>, <<4,6,7>>,
       <<0,1,5>>, <<0,5,4>>,   <<2,3,7>>, <<2,7,6>>,
       <<0,4,7>>, <<0,7,3>>,   <<1,2,6>>, <<1,6,5>> >>

\* create_cube_with_hole: the cube without its last two triangles
CubeWithHoleFaces == SubSeq(CubeFaces, 1, 10)

\* the single triangle of the edge-case tests
TriangleVertices == << <<0,0,0>>, <<1,0,0>>, <<0,1,0>> >>

\* further meshes a caller can pass, as [v |-> positions, f |-> faces]:
\*   a tetrahedron;
\*   a flat quad of two triangles whose vertices 3, 0, 1 lie on a line;
\*   two triangles with no common vertex;
\*   two triangles with one common vertex;
\*   three triangles around one edge;
\*   a fan of six triangles around vertex 0 (a disk with a six-vertex rim);
\*   the STL-style cube without its last two triangles;
\*   the flat quad with each of its triangles twice
Tetrahedron ==
    [v |-> << <<0,0,0>>, <<4,0,0>>, <<0,4,0>>, <<0,0,4>> >>,
     f |-> << <<0,2,1>>, <<0,1,3>>, <<0,3,2>>, <<1,2,3>> >>]

FlatQuad ==
    [v |-> << <<0,0,0>>, <<2,0,0>>, <<0,2,0>>, <<-2,0,0>> >>,
     f |-> << <<0,1,2>>, <<0,2,3>> >>]

TwoTriangles ==
    [v |-> << <<0,0,0>>, <<2,0,0>>, <<0,2,0>>, <<0,0,4>>, <<2,0,4>>, <<0,2,4>> >>,
     f |-> << <<0,1,2>>, <<3,4,5>> >>]

Bowtie ==
    [v |-> << <<0,0,0>>, <<2,0,0>>, <<2,2,0>>, <<-2,0,0>>, <<-2,-2,0>> >>,
     f |-> << <<0,1,2>>, <<0,3,4>> >>]

ThreeOnAnEdge ==
    [v |-> << <<0,0,0>>, <<2,0,0>>, <<0,2,0>>, <<0,0,2>>, <<0,-2,0>> >>,
     f |-> << <<0,1,2>>, <<0,1,3>>, <<0,1,4>> >>]

HexFan ==
    [v |-> << <<0,0,0>>, <<4,0,0>>, <<2,3,0>>, <<-2,3,0>>, <<-4,0,0>>,
              <<-2,-3,0>>, <<2,-3,0>> >>,
     f |-> << <<0,1,2>>, <<0,2,3>>, <<0,3,4>>, <<0,4,5>>, <<0,5,6>>, <<0,6,1>> >>]

StlCubeWithHole ==
    [v |-> SubSeq(StlCubeVertices, 1, 30), f |-> SubSeq(StlCubeFaces, 1, 10)]

\* the flat quad with each of its two triangles twice
DoubledQuad == [v |-> FlatQuad.v, f |-> FlatQuad.f \o FlatQuad.f]

\* a fan of four triangles around vertex 0 whose rim 1, 2, 3, 4 lies on one
\* line: a hole in which every ear is degenerate
CollinearFan ==
    [v |-> << <<0,2,0>>, <<0,0,0>>, <<2,0,0>>, <<4,0,0>>, <<6,0,0>> >>,
     f |-> << <<0,1,2>>, <<0,2,3>>, <<0,3,4>>, <<0,4,1>> >>]

\* two triangles that meet in vertex 2 only: every edge is a boundary edge and
\* vertex 2 lies on four of them
TouchingTriangles ==
    [v |-> << <<0,0,0>>, <<2,2,0>>, <<0,2,0>>, <<4,2,0>>, <<0,4,0>> >>,
     f |-> << <<0,2,4>>, <<1,2,3>> >>]

Scenarios ==
    { [v |-> <<>>, f |-> <<>>],
      [v |-> TriangleVertices, f |-> << <<0,1,2>> >>],
      [v |-> CubeVertices, f |-> CubeFaces],
      [v |-> CubeVertices, f |-> CubeWithHoleFaces],
      [v |-> StlCubeVertices, f |-> StlCubeFaces],
      Tetrahedron, FlatQuad, TwoTriangles, Bowtie, ThreeOnAnEdge, HexFan,
      StlCubeWithHole, DoubledQuad, CollinearFan, TouchingTriangles }

\* lexicographic order on index triples
TripleLeq(a, b) ==
    \/ a[1] < b[1]
    \/ a[1] = b[1] /\ a[2] < b[2]
    \/ a[1] = b[1] /\ a[2] = b[2] /\ a[3] <= b[3]

\* the face lists of n faces over nv vertices as they are after
\* weld_vertices, which the callers run before any analysis: every face has
\* three distinct indices.  Listed in non-decreasing order, one list for
\* every multiset of such faces (a face may occur more than once, and in any
\* orientation)
RECURSIVE FaceLists(_, _)
FaceLists(nv, n) ==
    IF n = 0 THEN {<<>>}
    ELSE UNION { {Append(fs, t) : t \in {u \in Triples(nv) :
                                            /\ ValidFace(u)
                                            /\ fs = <<>> \/ TripleLeq(fs[Len(fs)], u)}} :
                 fs \in FaceLists(nv, n - 1) }

\* any face list of at most MaxAFaces faces over the four vertices of the
\* tetrahedron, or one of the meshes above
InitAnalyze ==
    \/ \E n \in 0..MaxAFaces :
           \E fs \in FaceLists(Len(Tetrahedron.v), n) : Start(Tetrahedron.v, fs)
    \/ \E m \in Scenarios : Start(m.v, m.f)

\* the face lists tried over n freely chosen vertices: no face, or one face
\* whose first index is 0 (its other two indices are free, so it may repeat
\* an index)
OneFace(n) == {<<>>} \cup {<<t>> : t \in {u \in Triples(n) : u[1] = 0}}

\* a freely chosen vertex list with at most one face over it, or the
\* STL-style cube
InitWeld ==
    \/ \E vs \in SeqsUpTo(Points, MaxVerts) :
           \E fs \in OneFace(Len(vs)) :
               Start(vs, fs)
    \/ Start(StlCubeVertices, StlCubeFaces)

\* the bookkeeping of a call: the mesh passed, the call and the one before it
Booked(op, tolerance, ret) ==
    /\ ncalls' = ncalls + 1
    /\ pre' = [v |-> vertices, f |-> faces]
    /\ prev' = last
    /\ last' = [op |-> op, tol |-> tolerance, ret |-> ret]

\* a call made by a caller that makes at most MaxOps calls
Called(op, tolerance, ret) ==
    /\ ncalls < MaxOps
    /\ Booked(op, tolerance, ret)

Weld(tolerance) ==
    /\ LET r == WeldVertices(vertices, faces, tolerance)
       IN  /\ vertices' = r.v
           /\ faces' = r.f
           /\ vertex_map' = r.vertex_map
           /\ Called("weld", tolerance, r.ret)
    /\ out' = <<>>
    /\ UNCHANGED <<analysis, boundary_loops>>
    /\ UNCHANGED cliVars
    /\ UNCHANGED holeVars
    /\ UNCHANGED jobVars

Analyze ==
    /\ LET d == AnalyzeMeshDetailed(vertices, faces)
       IN  /\ analysis' = d.summary
           /\ boundary_loops' = d.boundary_loops
    /\ Called("analyze", 0, 0)
    /\ vertex_map' = <<>>
    /\ out' = <<>>
    /\ UNCHANGED <<vertices, faces>>
    /\ UNCHANGED cliVars
    /\ UNCHANGED holeVars
    /\ UNCHANGED jobVars

\* the caller's lists after a call of repair_mesh with result r
Returned(r, weld_tolerance) ==
    /\ vertices' = r.v
    /\ faces' = r.f
    /\ vertex_map' = r.vertex_map
    /\ out' = r.out
    /\ Booked("repair", weld_tolerance, r.ret)

Repair(weld_tolerance) ==
    /\ ncalls < MaxOps
    /\ Returned(RepairMesh(vertices, faces, weld_tolerance), weld_tolerance)
    /\ UNCHANGED <<analysis, boundary_loops>>
    /\ UNCHANGED cliVars
    /\ UNCHANGED holeVars
    /\ UNCHANGED jobVars

NextWeld == \E t \in Tolerances : Weld(t)

SpecWeld == InitWeld /\ [][NextWeld]_vars

NextAnalyze == Analyze

SpecAnalyze == InitAnalyze /\ [][NextAnalyze]_vars

\* the face lists of n faces over nv vertices a caller of analyze_mesh can
\* pass without welding first: a face may repeat an index.  Listed in
\* non-decreasing order, one list for every multiset of faces
RECURSIVE AnyFaceLists(_, _)
AnyFaceLists(nv, n) ==
    IF n = 0 THEN {<<>>}
    ELSE UNION { {Append(fs, t) : t \in {u \in Triples(nv) :
                                            fs = <<>> \/ TripleLeq(fs[Len(fs)], u)}} :
                 fs \in AnyFaceLists(nv, n - 1) }

\* any face list of at most MaxAFaces faces over the three vertices of the
\* single triangle, or one of the meshes above
InitAnyFaces ==
    \/ \E n \in 0..MaxAFaces :
           \E fs \in AnyFaceLists(Len(TriangleVertices), n) : Start(TriangleVertices, fs)
    \/ \E m \in Scenarios : Start(m.v, m.f)

SpecAnyFaces == InitAnyFaces /\ [][NextAnalyze]_vars

\* positions in a plane: on a line through the origin, and off it
PlanePoints == {<<0,0,0>>, <<2,0,0>>, <<-2,0,0>>, <<0,2,0>>, <<2,2,0>>}

\* open patches over four vertices: two triangles sharing the edge 0-2, the
\* same with the second triangle turned over, one triangle, and the three
\* triangles around vertex 0
PatchFaces ==
    { << <<0,1,2>>, <<0,2,3>> >>,
      << <<0,1,2>>, <<0,3,2>> >>,
      << <<0,1,2>> >>,
      << <<0,1,2>>, <<0,2,3>>, <<0,3,1>> >> }

\* one of the meshes above, or a patch over four vertices of a plane the
\* first of which is the origin
InitRepair ==
    \/ \E m \in Scenarios : Start(m.v, m.f)
    \/ \E a, b, c \in PlanePoints : \E fs \in PatchFaces :
           Start(<< <<0,0,0>>, a, b, c >>, fs)

\* the caller of the repair tests: repair_mesh, then analyze_mesh
NextRepair ==
    \/ \E t \in Tolerances : Repair(t)
    \/ Analyze

SpecRepair == InitRepair /\ [][NextRepair]_vars

---------------------------------------------------------------------------
(* triangulate_hole (main.cpp:491-536), one iteration of its while loop at *)
(* a time                                                                  *)

\* vertex lists of n vertices: on one line (no ear is ever found), on a
\* parabola (every ear is non-degenerate), and on a line for the first three
\* vertices and off it for the others
OnALine(n) == [i \in 1..n |-> <<2 * i, 0, 0>>]

OnAParabola(n) == [i \in 1..n |-> <<i, i * i, 0>>]

BentLine(n) == [i \in 1..n |-> <<i, IF i <= 3 THEN 0 ELSE (i - 3) * (i - 3), 0>>]

\* the loops of n pairwise distinct vertex indices below nv
RECURSIVE LoopsOf(_, _)
LoopsOf(nv, n) ==
    IF n = 0 THEN {<<>>}
    ELSE UNION { {Append(l, x) : x \in {y \in 0..(nv - 1) : \A a \in 1..Len(l) : l[a] # y}} :
                 l \in LoopsOf(nv, n - 1) }

\* triangulate_hole entered with a loop of at most MaxLoop vertices
InitHole ==
    \E vs \in {OnALine(MaxLoop), OnAParabola(MaxLoop), BentLine(MaxLoop)} :
        \E n \in 0..MaxLoop :
            \E l \in LoopsOf(MaxLoop, n) :
                /\ Idle(vs, <<>>)
                /\ hole_pc = "entered"
                /\ hole_loop = l
                /\ hole_remaining = <<>>
                /\ hole_result = <<>>
                /\ NoJob

\* the rest of the state while triangulate_hole runs
HoleFrame == UNCHANGED <<vertices, faces, analysis, libVars, cliVars, hole_loop, jobVars>>

\* "if (loop.size() < 3) return result", else remaining = loop
HoleEnter ==
    /\ hole_pc = "entered"
    /\ IF Len(hole_loop) < 3
       THEN hole_pc' = "returned" /\ UNCHANGED hole_remaining
       ELSE hole_pc' = "while" /\ hole_remaining' = hole_loop
    /\ hole_result' = <<>>
    /\ HoleFrame

\* one iteration of the while loop: the ear search, then the ear or the
\* fallback
HoleClip ==
    /\ hole_pc = "while"
    /\ Len(hole_remaining) > 3
    /\ LET i == FindEar(hole_remaining, 0, vertices)
       IN  IF i >= 0
           THEN /\ hole_result' = Append(hole_result, EarAt(hole_remaining, i))
                /\ hole_remaining' = EraseAt(hole_remaining, i)
           ELSE /\ hole_result' = Append(hole_result, <<hole_remaining[1], hole_remaining[2],
                                                         hole_remaining[3]>>)
                /\ hole_remaining' = EraseAt(hole_remaining, 1)
    /\ UNCHANGED hole_pc
    /\ HoleFrame

\* HoleLast without the push_back of the last triangle
HoleLastDropsTriangle ==
    /\ hole_pc = "while"
    /\ Len(hole_remaining) <= 3
    /\ hole_pc' = "returned"
    /\ UNCHANGED <<hole_remaining, hole_result>>
    /\ HoleFrame

\* the while loop left: "Last triangle" and return result
HoleLast ==
    /\ hole_pc = "while"
    /\ Len(hole_remaining) <= 3
    /\ hole_result' = IF Len(hole_remaining) = 3
                      THEN Append(hole_result, <<hole_remaining[1], hole_remaining[2],
                                                 hole_remaining[3]>>)
                      ELSE hole_result
    /\ hole_pc' = "returned"
    /\ UNCHANGED hole_remaining
    /\ HoleFrame

NextHole ==
    \/ HoleEnter
    \/ HoleClip
    \/ HoleLast

\* the call runs to its return: nothing else is scheduled in between
SpecHole == InitHole /\ [][NextHole]_vars /\ WF_vars(NextHole)

\* any caller on one of the meshes above
Init == \E m \in Scenarios : Start(m.v, m.f)

Next ==
    \/ \E t \in Tolerances : Weld(t)
    \/ Analyze
    \/ \E t \in Tolerances : Repair(t)

Spec == Init /\ [][Next]_vars

---------------------------------------------------------------------------
(* main() of the command-line program (main.cpp:31-349), from the return   *)
(* of CLI11_PARSE on: `args` is the parsed command line.  The loaders, the *)
(* SDF computation and the file writer are calls whose results are inputs. *)

\* the tolerance 1e-5f of the welding call.  Vertex coordinates are whole
\* numbers of a unit larger than that, so only equal positions are merged
WeldTolerance == 1

\* update_minmax over the vertex list: the bounding box of the positions
BoxMin(vs) ==
    <<FromInt(CHOOSE x \in {vs[k][1] : k \in 1..Len(vs)} : \A k \in 1..Len(vs) : x <= vs[k][1]),
      FromInt(CHOOSE x \in {vs[k][2] : k \in 1..Len(vs)} : \A k \in 1..Len(vs) : x <= vs[k][2]),
      FromInt(CHOOSE x \in {vs[k][3] : k \in 1..Len(vs)} : \A k \in 1..Len(vs) : x <= vs[k][3])>>

BoxMax(vs) ==
    <<FromInt(CHOOSE x \in {vs[k][1] : k \in 1..Len(vs)} : \A k \in 1..Len(vs) : x >= vs[k][1]),
      FromInt(CHOOSE x \in {vs[k][2] : k \in 1..Len(vs)} : \A k \in 1..Len(vs) : x >= vs[k][2]),
      FromInt(CHOOSE x \in {vs[k][3] : k \in 1..Len(vs)} : \A k \in 1..Len(vs) : x >= vs[k][3])>>

\* the meshes a file can hold: a closed one, an open flat one, and an open
\* one with the vertices of every triangle written out (as STL files do)
Loadable == {Tetrahedron, FlatQuad, StlCubeWithHole}

\* the values given as positionals: grid sizes and cell sizes
DimValues ==
    {Float(-1, 1), Float(0, 1), Float(1, 2), Float(1, 1), Float(2, 1),
     Float(3, 1), Float(4, 1), Float(6, 1), Float(25, 1)}

\* a second positional: a padding, or a number of 20 or more
PadValues == {Float(0, 1), Float(2, 1), Float(25, 1)}

\* grid sizes given as three positionals
GridValues == {Float(1, 1), Float(4, 1), Float(6, 1)}

\* the positionals `dimensions`: none, or one to four numbers
Dimensions ==
    {<<>>}
    \cup {<<a>> : a \in DimValues}
    \cup {<<a, b>> : a \in DimValues, b \in PadValues}
    \cup {<<a, b, c>> : a, b, c \in GridValues}
    \cup {<<Float(0, 1), Float(4, 1), Float(4, 1)>>, <<Float(4, 1), Float(4, 1), Float(0, 1)>>}
    \cup {<<a, b, c, Float(2, 1)>> : a, b, c \in GridValues}

\* the command lines: .stl or .obj input, the positionals, --fix, and
\* -p/--padding (1 when not given)
CommandLines ==
    [is_stl : BOOLEAN, dimensions : Dimensions, fix_mesh : BOOLEAN, padding : {0, 1, 2}]

InitMain ==
    /\ \E a \in CommandLines : Locals(a)
    /\ pc = "parsed"
    /\ vertices = <<>>
    /\ faces = <<>>
    /\ pre = [v |-> <<>>, f |-> <<>>]
    /\ last = NoCall
    /\ prev = NoCall
    /\ ncalls = 0
    /\ vertex_map = <<>>
    /\ analysis = NoAnalysis
    /\ boundary_loops = <<>>
    /\ out = <<>>
    /\ NoHole
    /\ NoJob

\* return or exit with a status
Exit(code) ==
    /\ pc' = "exit"
    /\ exit_code' = code

Step(name) == steps' = Append(steps, name)

\* "Validate dimensions": no positional after the input file
NoDimensions ==
    /\ pc = "parsed"
    /\ args.dimensions = <<>>
    /\ Exit(1)
    /\ UNCHANGED <<vertices, faces, analysis, libVars>>
    /\ UNCHANGED <<args, padding, dx, target, min_box, max_box, sizes, level_set, sdf_file, steps>>
    /\ UNCHANGED holeVars
    /\ UNCHANGED jobVars

\* a variant in which main returns 0 after a failed load
LoadFailedStatus0(name) ==
    /\ Step(name)
    /\ Exit(0)
    /\ UNCHANGED <<vertices, faces, min_box, max_box>>

\* a loader returning false
LoadFailed(name) ==
    /\ Step(name)
    /\ Exit(1)
    /\ UNCHANGED <<vertices, faces, min_box, max_box>>

\* a variant in which the loaded mesh goes to the analysis unwelded
LoadedNotWelded(name, m, then) ==
    /\ Step(name)
    /\ vertices' = m.v
    /\ faces' = m.f
    /\ min_box' = BoxMin(m.v)
    /\ max_box' = BoxMax(m.v)
    /\ pc' = "analyze"
    /\ UNCHANGED exit_code

\* a loader returning the mesh m with its bounding box
Loaded(name, m, then) ==
    /\ Step(name)
    /\ vertices' = m.v
    /\ faces' = m.f
    /\ min_box' = BoxMin(m.v)
    /\ max_box' = BoxMax(m.v)
    /\ pc' = then
    /\ UNCHANGED exit_code

\* mode 2: meshio::load_stl
StlLoad ==
    /\ pc = "parsed"
    /\ args.dimensions # <<>>
    /\ args.is_stl
    /\ \/ LoadFailed("load_stl failed")
       \/ \E m \in Loadable : Loaded("load_stl", m, "stl_dims")
    /\ UNCHANGED <<analysis, libVars>>
    /\ UNCHANGED <<args, padding, dx, target, sizes, level_set, sdf_file>>
    /\ UNCHANGED holeVars
    /\ UNCHANGED jobVars

\* if(padding < 1) padding = 1
AtLeastOne(p) == IF p < 1 THEN 1 ELSE p

\* proportional mode: Nx only, with an optional padding as second positional
Proportional(mesh_size) ==
    \E nx \in IntOf(args.dimensions[1]) :
      \E p \in (IF Len(args.dimensions) = 2 /\ FLess(args.dimensions[2], FromInt(20))
                THEN IntOf(args.dimensions[2]) ELSE {padding}) :
        IF nx <= 0
        THEN /\ Exit(1)
             /\ padding' = p
             /\ target' = <<nx, target[2], target[3]>>
             /\ UNCHANGED dx
        ELSE LET pad == AtLeastOne(p)
                 d == FDiv(mesh_size[1], FromInt(nx - 2 * pad))
             IN  /\ padding' = pad
                 /\ dx' = d
                 /\ \E ry \in IntOf(FAdd(FDiv(mesh_size[2], d), Float(1, 2))) :
                      \E rz \in IntOf(FAdd(FDiv(mesh_size[3], d), Float(1, 2))) :
                          target' = <<nx, ry + 2 * pad, rz + 2 * pad>>
                 /\ pc' = "weld"
                 /\ UNCHANGED exit_code

\* manual mode: Nx, Ny, Nz
Manual(mesh_size) ==
    \E nx \in IntOf(args.dimensions[1]) :
      \E ny \in IntOf(args.dimensions[2]) :
        \E nz \in IntOf(args.dimensions[3]) :
          /\ target' = <<nx, ny, nz>>
          /\ IF nx <= 0 \/ ny <= 0 \/ nz <= 0
             THEN /\ Exit(1)
                  /\ UNCHANGED <<padding, dx>>
             ELSE LET pad == AtLeastOne(padding)
                      dx_x == FDiv(mesh_size[1], FromInt(nx - 2 * pad))
                      dx_y == FDiv(mesh_size[2], FromInt(ny - 2 * pad))
                      dx_z == FDiv(mesh_size[3], FromInt(nz - 2 * pad))
                  IN  /\ padding' = pad
                      /\ dx' = FMax(dx_x, FMax(dx_y, dx_z))
                      /\ pc' = "weld"
                      /\ UNCHANGED exit_code

\* mode 2: "Parse dimensions"
StlDimensions ==
    /\ pc = "stl_dims"
    /\ IF Len(args.dimensions) <= 2
       THEN Proportional(V3Sub(max_box, min_box))
       ELSE Manual(V3Sub(max_box, min_box))
    /\ UNCHANGED <<vertices, faces, analysis, libVars>>
    /\ UNCHANGED <<args, min_box, max_box, sizes, level_set, sdf_file, steps>>
    /\ UNCHANGED holeVars
    /\ UNCHANGED jobVars

\* mode 1: dx and the optional padding positional
ObjDimensions ==
    /\ pc = "parsed"
    /\ args.dimensions # <<>>
    /\ ~args.is_stl
    /\ dx' = args.dimensions[1]
    /\ \E p \in (IF Len(args.dimensions) >= 2 THEN IntOf(args.dimensions[2]) ELSE {padding}) :
           padding' = AtLeastOne(p)
    /\ pc' = "obj_load"
    /\ UNCHANGED <<vertices, faces, analysis, libVars>>
    /\ UNCHANGED <<args, target, min_box, max_box, sizes, level_set, sdf_file, exit_code, steps>>
    /\ UNCHANGED holeVars
    /\ UNCHANGED jobVars

\* mode 1: meshio::load_obj
ObjLoad ==
    /\ pc = "obj_load"
    /\ \/ LoadFailed("load_obj failed")
       \/ \E m \in Loadable : Loaded("load_obj", m, "weld")
    /\ UNCHANGED <<analysis, libVars>>
    /\ UNCHANGED <<args, padding, dx, target, sizes, level_set, sdf_file>>
    /\ UNCHANGED holeVars
    /\ UNCHANGED jobVars

\* "Weld duplicate vertices": weld_vertices(vertList, faceList, 1e-5f)
MainWeld ==
    /\ pc = "weld"
    /\ LET r == WeldVertices(vertices, faces, WeldTolerance)
       IN  /\ vertices' = r.v
           /\ faces' = r.f
           /\ vertex_map' = r.vertex_map
           /\ Booked("weld", WeldTolerance, r.ret)
    /\ out' = <<>>
    /\ Step("weld_vertices")
    /\ pc' = "analyze"
    /\ UNCHANGED <<analysis, boundary_loops>>
    /\ UNCHANGED <<args, padding, dx, target, min_box, max_box, sizes, level_set, sdf_file, exit_code>>
    /\ UNCHANGED holeVars
    /\ UNCHANGED jobVars

\* "Analyze mesh watertightness (always)": analyze_mesh, print_mesh_analysis
MainAnalyze ==
    /\ pc = "analyze"
    /\ LET d == AnalyzeMeshDetailed(vertices, faces)
       IN  /\ analysis' = d.summary
           /\ boundary_loops' = d.boundary_loops
    /\ Booked("analyze", 0, 0)
    /\ vertex_map' = <<>>
    /\ out' = <<>>
    /\ steps' = steps \o <<"analyze_mesh", "print_mesh_analysis">>
    /\ pc' = "repair"
    /\ UNCHANGED <<vertices, faces>>
    /\ UNCHANGED <<args, padding, dx, target, min_box, max_box, sizes, level_set, sdf_file, exit_code>>
    /\ UNCHANGED holeVars
    /\ UNCHANGED jobVars

\* "Optionally repair mesh if --fix flag was provided": repair_mesh without
\* welding, and the bounding box again when a hole was filled
MainRepaired(r) ==
    /\ Returned(r, 0)
    /\ IF r.ret > 0
       THEN min_box' = BoxMin(r.v) /\ max_box' = BoxMax(r.v)
       ELSE UNCHANGED <<min_box, max_box>>

\* a variant that repairs whether or not --fix was given
MainRepairUnasked ==
    /\ pc = "repair"
    /\ ~analysis.is_watertight
    /\ MainRepaired(RepairMesh(vertices, faces, 0))
    /\ Step("repair_mesh")
    /\ pc' = "grid"
    /\ UNCHANGED <<analysis, boundary_loops>>
    /\ UNCHANGED <<args, padding, dx, target, sizes, level_set, sdf_file, exit_code>>
    /\ UNCHANGED holeVars
    /\ UNCHANGED jobVars

MainRepair ==
    /\ pc = "repair"
    /\ args.fix_mesh /\ ~analysis.is_watertight
    /\ MainRepaired(RepairMesh(vertices, faces, 0))
    /\ Step("repair_mesh")
    /\ pc' = "grid"
    /\ UNCHANGED <<analysis, boundary_loops>>
    /\ UNCHANGED <<args, padding, dx, target, sizes, level_set, sdf_file, exit_code>>
    /\ UNCHANGED holeVars
    /\ UNCHANGED jobVars

\* no --fix, or a watertight mesh: the if is not entered
SkipRepair ==
    /\ pc = "repair"
    /\ ~(args.fix_mesh /\ ~analysis.is_watertight)
    /\ pc' = "grid"
    /\ UNCHANGED <<vertices, faces, analysis, libVars>>
    /\ UNCHANGED <<args, padding, dx, target, min_box, max_box, sizes, level_set, sdf_file, exit_code, steps>>
    /\ UNCHANGED holeVars
    /\ UNCHANGED jobVars

\* grid-count mode: the target sizes, and the box of that grid around the
\* centre of the mesh
PreciseGrid ==
    LET grid_size == <<FMul(UnsignedToFloat(target[1]), dx),
                       FMul(UnsignedToFloat(target[2]), dx),
                       FMul(UnsignedToFloat(target[3]), dx)>>
        mesh_center == V3Scale(V3Add(min_box, max_box), Float(1, 2))
    IN  /\ sizes' = target
        /\ min_box' = V3Sub(mesh_center, V3Scale(grid_size, Float(1, 2)))
        /\ max_box' = V3Add(mesh_center, V3Scale(grid_size, Float(1, 2)))

\* cell-size mode ("Legacy mode: add padding, then calculate sizes"), with
\* the padded box lo, hi
LegacySizes(lo, hi) ==
    /\ min_box' = lo
    /\ max_box' = hi
    /\ \E nx \in UnsignedOf(FDiv(FSub(hi[1], lo[1]), dx)) :
         \E ny \in UnsignedOf(FDiv(FSub(hi[2], lo[2]), dx)) :
           \E nz \in UnsignedOf(FDiv(FSub(hi[3], lo[3]), dx)) :
               sizes' = <<nx, ny, nz>>

LegacyGrid ==
    LegacySizes(V3Sub(min_box, V3Scale(<<dx, dx, dx>>, FromInt(padding))),
                V3Add(max_box, V3Scale(<<dx, dx, dx>>, FromInt(padding))))

\* "Add padding around the box and compute final grid dimensions"
MainGrid ==
    /\ pc = "grid"
    /\ IF args.is_stl THEN PreciseGrid ELSE LegacyGrid
    /\ pc' = "level_set"
    /\ UNCHANGED <<vertices, faces, analysis, libVars>>
    /\ UNCHANGED <<args, padding, dx, target, level_set, sdf_file, exit_code, steps>>
    /\ UNCHANGED holeVars
    /\ UNCHANGED jobVars

\* the Array3f the SDF computation returns for an ni x nj x nk grid
PhiGrid(ni, nj, nk) == <<ni, nj, nk>>

\* sdfgen::make_level_set3(faceList, vertList, min_box, dx, sizes[0],
\* sizes[1], sizes[2], phi_grid, 1, backend, num_threads)
MainLevelSet ==
    /\ pc = "level_set"
    /\ level_set' = [called |-> TRUE, faceList |-> faces, vertList |-> vertices,
                     origin |-> min_box, dx |-> dx,
                     ni |-> sizes[1], nj |-> sizes[2], nk |-> sizes[3],
                     phi_grid |-> PhiGrid(sizes[1], sizes[2], sizes[3])]
    /\ Step("make_level_set3")
    /\ pc' = "write"
    /\ UNCHANGED <<vertices, faces, analysis, libVars>>
    /\ UNCHANGED <<args, padding, dx, target, min_box, max_box, sizes, sdf_file, exit_code>>
    /\ UNCHANGED holeVars
    /\ UNCHANGED jobVars

\* "Binary SDF output": write_sdf_binary succeeds and main returns 0, or it
\* fails and main calls exit(-1)
MainWrite ==
    /\ pc = "write"
    /\ Step("write_sdf_binary")
    /\ \/ /\ sdf_file' = [written |-> TRUE, dims |-> level_set.phi_grid,
                          origin |-> min_box, dx |-> dx]
          /\ Exit(0)
       \/ /\ UNCHANGED sdf_file
          /\ Exit(-1)
    /\ UNCHANGED <<vertices, faces, analysis, libVars>>
    /\ UNCHANGED <<args, padding, dx, target, min_box, max_box, sizes, level_set>>
    /\ UNCHANGED holeVars
    /\ UNCHANGED jobVars

NextMain ==
    \/ NoDimensions
    \/ StlLoad
    \/ StlDimensions
    \/ ObjDimensions
    \/ ObjLoad
    \/ MainWeld
    \/ MainAnalyze
    \/ MainRepair
    \/ SkipRepair
    \/ MainGrid
    \/ MainLevelSet
    \/ MainWrite

SpecMain == InitMain /\ [][NextMain]_vars

---------------------------------------------------------------------------
(* make_level_set (sections 4.A and 4.D to 4.H of the specification).     *)
(* Coordinates are whole numbers and the cell size is an even number of   *)
(* units, so the voxel centres are whole too.  A distance d is held as    *)
(* the exact fraction d * |d|: the order of two distances and the         *)
(* negation of a distance are those of the values held.                   *)

\* the number of workers of the pool
MaxWorkers == 2

Workers == 1..MaxWorkers

Dot(a, b) == a[1]*b[1] + a[2]*b[2] + a[3]*b[3]

\* the smaller of two distances, by strict <
FMin(a, b) == IF FLess(b, a) THEN b ELSE a

\* point-segment distance from the vectors ap = p - a and bp = p - b, the
\* projection t = ap . ab and len2 = |ab|^2
SegmentOf(ap, bp, t, len2) ==
    IF len2 = 0 \/ t <= 0 THEN FromInt(SqLength(ap))
    ELSE IF t >= len2 THEN FromInt(SqLength(bp))
    ELSE Float(SqLength(ap) * len2 - t * t, len2)

point_segment_distance(p, a, b) ==
    SegmentOf(Sub3(p, a), Sub3(p, b), Dot(Sub3(p, a), Sub3(b, a)), SqLength(Sub3(b, a)))

\* the minimum of the three point-segment distances
EdgesDistance(p, a, b, c) ==
    FMin(point_segment_distance(p, a, b),
         FMin(point_segment_distance(p, b, c), point_segment_distance(p, c, a)))

\* the projection of p onto the plane of (a, b, c), whose normal is n, lies
\* in the closed triangle
ProjectsInside(p, a, b, c, n) ==
    /\ Dot(cross(Sub3(b, a), Sub3(p, a)), n) >= 0
    /\ Dot(cross(Sub3(c, b), Sub3(p, b)), n) >= 0
    /\ Dot(cross(Sub3(a, c), Sub3(p, c)), n) >= 0

TriangleOf(p, a, b, c, n) ==
    IF n = <<0, 0, 0>> THEN EdgesDistance(p, a, b, c)
    ELSE IF ProjectsInside(p, a, b, c, n)
    THEN Float(Dot(Sub3(p, a), n) * Dot(Sub3(p, a), n), Dot(n, n))
    ELSE EdgesDistance(p, a, b, c)

\* the distance from p to the closed triangle (a, b, c): to its plane when
\* the projection falls inside, else to its nearest edge or vertex; a
\* triangle of zero area falls back to its edges
point_triangle_distance(p, a, b, c) ==
    TriangleOf(p, a, b, c, cross(Sub3(b, a), Sub3(c, a)))

\* twice the signed area of (a, b, p) in the (x, y) plane
orientation(a, b, p) ==
    (b[1] - a[1]) * (p[2] - a[2]) - (b[2] - a[2]) * (p[1] - a[1])

\* the grid of job j
Size(j) == <<j.nx, j.ny, j.nz>>

Voxels(j) == (0..(j.nx - 1)) \X (0..(j.ny - 1)) \X (0..(j.nz - 1))

\* the number of voxels
Count3(j) == j.nx * j.ny * j.nz

\* the centre of voxel v: origin + (v + 1/2) dx
Center(j, v) ==
    <<j.origin[1] + v[1] * j.dx + (j.dx \div 2),
      j.origin[2] + v[2] * j.dx + (j.dx \div 2),
      j.origin[3] + v[3] * j.dx + (j.dx \div 2)>>

\* corner c (1, 2, 3) of triangle t (0-based)
Corner(j, t, c) == At(j.vertices, At(j.triangles, t)[c])

TriangleIds(j) == 0..(Len(j.triangles) - 1)

\* the triangle with its winding turned over
Flip(f) == <<f[1], f[3], f[2]>>

\* the face list fs with the faces at the positions of S turned over
Flipped(fs, S) == [k \in 1..Len(fs) |-> IF k \in S THEN Flip(fs[k]) ELSE fs[k]]

\* two triangles at the two ends of a row of four voxels
Shards ==
    [v |-> << <<0,0,0>>, <<2,0,0>>, <<0,2,2>>, <<8,0,0>>, <<6,0,0>>, <<8,2,2>> >>,
     f |-> << <<0,1,2>>, <<3,4,5>> >>]

\* the two shards and, between them, a triangle of zero area
Sliver ==
    [v |-> Shards.v, f |-> << <<0,1,2>>, <<3,4,5>>, <<1,4,1>> >>]

\* a job on a grid of cell size 2 with its origin at the origin
JobOn(m, nx, ny, nz, band) ==
    [triangles |-> m.f, vertices |-> m.v, origin |-> <<0, 0, 0>>, dx |-> 2,
     nx |-> nx, ny |-> ny, nz |-> nz, exact_band |-> band]

\* the jobs, each on a grid as section 3 defines one (positive counts and a
\* positive cell size): no triangle (with and without vertices); the tetrahedron in a
\* grid of 2 x 2 x 2 voxels, as it is, with its last face turned over, with
\* the first and the last turned over and with every face turned over; the
\* two shards in a row of 4 voxels with an exact band of 1 and of 2; the
\* sliver in the same row
Jobs ==
    {JobOn([v |-> <<>>, f |-> <<>>], 2, 2, 2, 1),
     JobOn([v |-> Tetrahedron.v, f |-> <<>>], 2, 1, 2, 1)}
    \cup {JobOn([v |-> Tetrahedron.v, f |-> Flipped(Tetrahedron.f, S)], 2, 2, 2, 1) :
              S \in {{}, {4}, {1, 4}, {1, 2, 3, 4}}}
    \cup {JobOn(Shards, 4, 1, 1, b) : b \in {1, 2}}
    \cup {JobOn(Sliver, 4, 1, 1, 1)}

\* the distance from the centre of voxel v to triangle t
Distance(j, v, t) ==
    point_triangle_distance(Center(j, v), Corner(j, t, 1), Corner(j, t, 2), Corner(j, t, 3))

\* the sentinel of phi: three times the grid diagonal
Sentinel(j) == FromInt(9 * j.dx * j.dx * (j.nx * j.nx + j.ny * j.ny + j.nz * j.nz))

Clamp(x, lo, hi) == IF x < lo THEN lo ELSE IF x > hi THEN hi ELSE x

Min3(a, b, c) == Min2(a, Min2(b, c))
Max3(a, b, c) == Max2(a, Max2(b, c))

\* the footprint of triangle t along axis c: the bounding box of its corners
\* in grid-index space (origin subtracted, divided by dx), expanded by the
\* exact band and clamped to [0, n-1].  The corners of the meshes below lie
\* on the grid lines, so the bounds of the box are whole
Low(j, t, c) ==
    Clamp(((Min3(Corner(j, t, 1)[c], Corner(j, t, 2)[c], Corner(j, t, 3)[c]) - j.origin[c])
              \div j.dx) - j.exact_band,
          0, Size(j)[c] - 1)

High(j, t, c) ==
    Clamp(((Max3(Corner(j, t, 1)[c], Corner(j, t, 2)[c], Corner(j, t, 3)[c]) - j.origin[c])
              \div j.dx) + j.exact_band,
          0, Size(j)[c] - 1)

Footprint(j, t) ==
    {v \in Voxels(j) : \A c \in 1..3 : Low(j, t, c) <= v[c] /\ v[c] <= High(j, t, c)}

\* a scratch pair (or the shared pair) as allocated: sentinels and -1
Fresh(j) ==
    [phi |-> [v \in Voxels(j) |-> Sentinel(j)], closest |-> [v \in Voxels(j) |-> -1]]

\* a triangle of zero area is skipped silently by the exact pass
Skipped(j, t) ==
    cross(Sub3(Corner(j, t, 2), Corner(j, t, 1)), Sub3(Corner(j, t, 3), Corner(j, t, 1)))
        = <<0, 0, 0>>

\* triangle t is nearer to voxel v than what the pair g holds
Nearer(g, j, v, t) ==
    /\ ~Skipped(j, t)
    /\ v \in Footprint(j, t)
    /\ FLess(Distance(j, v, t), g.phi[v])

\* the per-triangle loop of the exact pass for triangle t on the pair g: "if
\* d < phi[i,j,k], store d into phi and t into closest"
Exact(g, j, t) ==
    [phi |-> [v \in Voxels(j) |-> IF Nearer(g, j, v, t) THEN Distance(j, v, t) ELSE g.phi[v]],
     closest |-> [v \in Voxels(j) |-> IF Nearer(g, j, v, t) THEN t ELSE g.closest[v]]]

\* the value of one voxel after the candidate cand is reduced into acc: the
\* first to come among equal distances
MergeFirstWins(acc, cand) == IF FLess(cand.phi, acc.phi) THEN cand ELSE acc

\* the value of one voxel after the candidate cand is reduced into acc: the
\* smaller distance and, of two equal distances, the smaller triangle index
Merge(acc, cand) ==
    IF \/ FLess(cand.phi, acc.phi)
       \/ cand.phi = acc.phi /\ cand.closest >= 0
              /\ (acc.closest < 0 \/ cand.closest < acc.closest)
    THEN cand ELSE acc

\* the reduction of voxel v over the scratch pairs sc of workers w..MaxWorkers
RECURSIVE ReduceVoxel(_, _, _, _)
ReduceVoxel(sc, v, w, acc) ==
    IF w > MaxWorkers THEN acc
    ELSE ReduceVoxel(sc, v, w + 1,
                     Merge(acc, [phi |-> sc[w].phi[v], closest |-> sc[w].closest[v]]))

\* the contribution of a triangle to inside at a voxel whose centre is at
\* height pz: the ray of the column is inside the projection (all three
\* orientations wa, wb, wc of one strict sign), the centre is above the
\* crossing (wa az + wb bz + wc cz) / area, and the count is +1 for a
\* positive signed area, -1 otherwise
CrossingOf(pz, az, bz, cz, area, wa, wb, wc) ==
    IF /\ (wa > 0 /\ wb > 0 /\ wc > 0) \/ (wa < 0 /\ wb < 0 /\ wc < 0)
       /\ IF area > 0 THEN pz * area > wa * az + wb * bz + wc * cz
                      ELSE pz * area < wa * az + wb * bz + wc * cz
    THEN (IF area > 0 THEN 1 ELSE -1)
    ELSE 0

Crossing(p, a, b, c) ==
    CrossingOf(p[3], a[3], b[3], c[3], orientation(a, b, c),
               orientation(b, c, p), orientation(c, a, p), orientation(a, b, p))

\* the sum of the contributions of triangles t, t+1, ... at voxel v
RECURSIVE Crossings(_, _, _)
Crossings(j, v, t) ==
    IF t >= Len(j.triangles) THEN 0
    ELSE Crossing(Center(j, v), Corner(j, t, 1), Corner(j, t, 2), Corner(j, t, 3))
             + Crossings(j, v, t + 1)

\* the worker that owns the column of voxel v: the columns (i, j) are split
\* into MaxWorkers ranges
Owner(j, v) == (((v[2] * j.nx + v[1]) * MaxWorkers) \div (j.nx * j.ny)) + 1

\* a voxel is inside when its counter is non-zero
IsInsideNonZero(count) == count # 0

\* a voxel is inside iff its counter is odd
IsInside(count) == count % 2 # 0

\* the face neighbours of voxel v in the grid, in a fixed order
Neighbours(j, v) ==
    SelectSeq(<< <<v[1] - 1, v[2], v[3]>>, <<v[1] + 1, v[2], v[3]>>,
                 <<v[1], v[2] - 1, v[3]>>, <<v[1], v[2] + 1, v[3]>>,
                 <<v[1], v[2], v[3] - 1>>, <<v[1], v[2], v[3] + 1>> >>,
              LAMBDA n : n \in Voxels(j))

\* voxel v looks at its neighbour n: with a valid closest[n] = ct, if the
\* distance d from v to triangle ct is below phi[v], phi[v] = d and
\* closest[v] = ct
Relax(g, j, v, n) ==
    IF g.closest[n] >= 0 /\ FLess(Distance(j, v, g.closest[n]), g.phi[v])
    THEN [phi |-> [g.phi EXCEPT ![v] = Distance(j, v, g.closest[n])],
          closest |-> [g.closest EXCEPT ![v] = g.closest[n]]]
    ELSE g

\* voxel v looks at its neighbours ns[k], ns[k+1], ...
RECURSIVE RelaxAll(_, _, _, _, _)
RelaxAll(g, j, v, ns, k) ==
    IF k > Len(ns) THEN g
    ELSE RelaxAll(Relax(g, j, v, ns[k]), j, v, ns, k + 1)

\* the number of voxels of a plane across axis a
Plane(j, a) == Count3(j) \div Size(j)[a]

\* the first of the two axes other than a
First(a) == IF a = 1 THEN 2 ELSE 1

\* the voxel visited at step s (0-based) of a sweep along axis a in direction
\* dir: the planes across the axis one after the other, each in index order
VoxelAt(j, a, dir, s) ==
    [c \in 1..3 |->
        IF c = a
        THEN (IF dir > 0 THEN s \div Plane(j, a) ELSE Size(j)[a] - 1 - (s \div Plane(j, a)))
        ELSE IF c = First(a) THEN (s % Plane(j, a)) % Size(j)[c]
        ELSE (s % Plane(j, a)) \div Size(j)[First(a)]]

\* the fixed schedule: two passes of the six sweeps +i, -i, +j, -j, +k, -k
Schedule ==
    << <<1, 1>>, <<1, -1>>, <<2, 1>>, <<2, -1>>, <<3, 1>>, <<3, -1>>,
       <<1, 1>>, <<1, -1>>, <<2, 1>>, <<2, -1>>, <<3, 1>>, <<3, -1>> >>

\* one directional sweep from its step s on, each voxel visited before the
\* next
RECURSIVE Sweep(_, _, _, _, _)
Sweep(g, j, a, dir, s) ==
    IF s >= Count3(j) THEN g
    ELSE LET nxt == RelaxAll(g, j, VoxelAt(j, a, dir, s),
                             Neighbours(j, VoxelAt(j, a, dir, s)), 1)
         IN  IF DOMAIN nxt.phi # {} THEN Sweep(nxt, j, a, dir, s + 1) ELSE nxt

\* the sweeps Schedule[k], Schedule[k+1], ... one after the other
RECURSIVE Sweeps(_, _, _)
Sweeps(g, j, k) ==
    IF k > Len(Schedule) THEN g
    ELSE LET nxt == Sweep(g, j, Schedule[k][1], Schedule[k][2], 0)
         IN  IF DOMAIN nxt.phi # {} THEN Sweeps(nxt, j, k + 1) ELSE nxt

InitLevelSet ==
    /\ Idle(<<>>, <<>>)
    /\ NoHole
    /\ job_pc = "entered"
    /\ job \in Jobs
    /\ workers = <<>>
    /\ scratch = <<>>
    /\ phi = <<>>
    /\ closest = <<>>
    /\ inside = <<>>

\* the rest of the state while the job runs
JobFrame == UNCHANGED <<vertices, faces, analysis, libVars, cliVars, holeVars, job>>

\* the three arrays are allocated and the pool is created: the triangles are
\* partitioned into one batch for each worker, in any way, and every worker
\* gets a scratch pair of sentinels
Allocate ==
    /\ job_pc = "entered"
    /\ \E part \in [TriangleIds(job) -> Workers] :
           workers' = [w \in Workers |->
                          [batch |-> SortedVerts({t \in TriangleIds(job) : part[t] = w}),
                           counted |-> FALSE]]
    /\ scratch' = [w \in Workers |-> Fresh(job)]
    /\ phi' = Fresh(job).phi
    /\ closest' = Fresh(job).closest
    /\ inside' = [v \in Voxels(job) |-> 0]
    /\ job_pc' = "narrow_band"
    /\ JobFrame

\* worker w runs the per-triangle loop for the next triangle of its batch
\* into its scratch pair
ExactStep(w) ==
    /\ job_pc = "narrow_band"
    /\ workers[w].batch # <<>>
    /\ workers' = [workers EXCEPT ![w].batch = Tail(@)]
    /\ scratch' = [scratch EXCEPT ![w] = Exact(scratch[w], job, Head(workers[w].batch))]
    /\ UNCHANGED <<job_pc, phi, closest, inside>>
    /\ JobFrame

\* the barrier at the end of the exact pass: every worker is through its
\* batch; the scratch pairs are reduced by per-voxel minimum and released
Reduce ==
    /\ job_pc = "narrow_band"
    /\ \A w \in Workers : workers[w].batch = <<>>
    /\ phi' = [v \in Voxels(job) |->
                  ReduceVoxel(scratch, v, 1, [phi |-> phi[v], closest |-> closest[v]]).phi]
    /\ closest' = [v \in Voxels(job) |->
                      ReduceVoxel(scratch, v, 1, [phi |-> phi[v], closest |-> closest[v]]).closest]
    /\ scratch' = <<>>
    /\ job_pc' = "parity"
    /\ UNCHANGED <<workers, inside>>
    /\ JobFrame

\* worker w counts the crossings of the columns it owns
Count(w) ==
    /\ job_pc = "parity"
    /\ ~workers[w].counted
    /\ inside' = [v \in Voxels(job) |->
                     IF Owner(job, v) = w THEN inside[v] + Crossings(job, v, 0)
                     ELSE inside[v]]
    /\ workers' = [workers EXCEPT ![w].counted = TRUE]
    /\ UNCHANGED <<job_pc, scratch, phi, closest>>
    /\ JobFrame

\* the barrier at the end of the parity pass: every column is counted; then
\* the sweeps, on the main thread
FastSweep ==
    /\ job_pc = "parity"
    /\ \A w \in Workers : workers[w].counted
    /\ job_pc' = "sign"
    /\ LET g == Sweeps([phi |-> phi, closest |-> closest], job, 1)
       IN  /\ phi' = [v \in Voxels(job) |-> g.phi[v]]
           /\ closest' = [v \in Voxels(job) |-> g.closest[v]]
    /\ UNCHANGED <<workers, scratch, inside>>
    /\ JobFrame

\* sign application that negates every voxel
ApplySignAll ==
    /\ job_pc = "sign"
    /\ phi' = [v \in Voxels(job) |-> FNeg(phi[v])]
    /\ job_pc' = "returned"
    /\ UNCHANGED <<workers, scratch, closest, inside>>
    /\ JobFrame

\* sign application, then the return of phi
ApplySign ==
    /\ job_pc = "sign"
    /\ phi' = [v \in Voxels(job) |-> IF IsInside(inside[v]) THEN FNeg(phi[v]) ELSE phi[v]]
    /\ job_pc' = "returned"
    /\ UNCHANGED <<workers, scratch, closest, inside>>
    /\ JobFrame

NextLevelSet ==
    \/ Allocate
    \/ \E w \in Workers : ExactStep(w)
    \/ Reduce
    \/ \E w \in Workers : Count(w)
    \/ FastSweep
    \/ ApplySign

\* the job cannot be cancelled and the pool is joined before it ends: every
\* worker and the main thread run on until the job returns
SpecLevelSet == InitLevelSet /\ [][NextLevelSet]_vars /\ WF_vars(NextLevelSet)

---------------------------------------------------------------------------
(* Claims about weld_vertices, checked under SpecWeld *)

\* the last call was weld_vertices with a tolerance > 0
Welded == last.op = "weld" /\ last.tol > 0

\* the last two calls were weld_vertices with the same tolerance > 0
WeldedTwice ==
    /\ Welded
    /\ prev.op = "weld"
    /\ prev.tol = last.tol

\* C1: weld_vertices(t) applied to the output of weld_vertices(t), t > 0,
\* returns 0 and leaves the vertex list and the face list unchanged.
C1_WeldIdempotent ==
    WeldedTwice => /\ last.ret = 0
                   /\ vertices = pre.v
                   /\ faces = pre.f

\* a second weld after a first one that merged vertices and kept a face
C1_Witness ==
    /\ WeldedTwice
    /\ prev.ret > 0
    /\ Len(vertices) >= 2
    /\ faces # <<>>

\* the merge criterion of weld_vertices, which the specification words as
\* "within Euclidean distance t": length(a - b) < t
Within(a, b, t) == LengthLess(Sub3(a, b), t)

NoRepeatedIndex(fs) == \A k \in 1..Len(fs) : ValidFace(fs[k])

C3_WeldReturnsMerged ==
    last.op = "weld" =>
        last.ret = Len(pre.v) - Len(vertices)

\* the STL-style cube: 36 vertices welded to 8, 28 reported
C3_Witness ==
    /\ Welded
    /\ Len(pre.v) = 36
    /\ Len(vertices) = 8
    /\ last.ret = 28

\* the input index (0-based) of the first vertex mapped to output index j
FirstIdx(j) ==
    CHOOSE i \in 0..(Len(vertex_map) - 1) :
        /\ At(vertex_map, i) = j
        /\ \A k \in 0..(i - 1) : At(vertex_map, k) # j

\* C4: the output vertex list is a subsequence of the input in the same
\* order, the first input vertex is kept at index 0, and every merged input
\* vertex is mapped to a kept vertex that is earlier in the input and within
\* the tolerance of it.
C4_WeldStable ==
    Welded =>
        /\ Len(vertex_map) = Len(pre.v)
        /\ \A i \in 0..(Len(pre.v) - 1) : At(vertex_map, i) \in 0..(Len(vertices) - 1)
        /\ \A j \in 0..(Len(vertices) - 1) :
               /\ \E i \in 0..(Len(pre.v) - 1) : At(vertex_map, i) = j
               /\ At(vertices, j) = At(pre.v, FirstIdx(j))
               /\ j > 0 => FirstIdx(j - 1) < FirstIdx(j)
        /\ pre.v # <<>> => (vertices # <<>> /\ vertices[1] = pre.v[1])
        /\ \A i \in 0..(Len(pre.v) - 1) :
               LET j == At(vertex_map, i)
               IN  i # FirstIdx(j) =>
                       /\ FirstIdx(j) < i
                       /\ Within(At(pre.v, i), At(pre.v, FirstIdx(j)), last.tol)

\* a weld that merges a vertex and keeps a later one
C4_Witness ==
    /\ Welded
    /\ \E i \in 0..(Len(pre.v) - 2) :
           /\ i # FirstIdx(At(vertex_map, i))
           /\ (i + 1) = FirstIdx(At(vertex_map, i + 1))

---------------------------------------------------------------------------
(* Claims about analyze_mesh, checked under SpecAnalyze *)

Analyzed == last.op = "analyze"

\* the unordered vertex-index pairs that occur as an edge of some face
EdgePairs(fs) ==
    UNION { {Edge(fs[k][1], fs[k][2]), Edge(fs[k][2], fs[k][3]), Edge(fs[k][3], fs[k][1])} :
            k \in 1..Len(fs) }

\* the triangles that contain the pair e as an edge
TrianglesOf(fs, e) ==
    {k \in 1..Len(fs) :
        e \in {Edge(fs[k][1], fs[k][2]), Edge(fs[k][2], fs[k][3]), Edge(fs[k][3], fs[k][1])}}

Incident(fs, e) == Cardinality(TrianglesOf(fs, e))

\* the pairs contained in exactly one triangle
BoundaryPairs(fs) == {e \in EdgePairs(fs) : Incident(fs, e) = 1}

VerticesOf(B) == UNION {{e[1], e[2]} : e \in B}
PairsAt(B, x) == {e \in B : x \in {e[1], e[2]}}

\* B is a union of vertex-disjoint simple cycles of length >= 3: no pair joins
\* a vertex to itself and every vertex lies on exactly two pairs
DisjointSimpleCycles(B) ==
    /\ \A e \in B : e[1] # e[2]
    /\ \A x \in VerticesOf(B) : Cardinality(PairsAt(B, x)) = 2

\* the vertices joined to the set S by pairs of B
RECURSIVE Component(_, _)
Component(B, S) ==
    LET T == S \cup UNION {{e[1], e[2]} : e \in {d \in B : d[1] \in S \/ d[2] \in S}}
    IN  IF T = S THEN S ELSE Component(B, T)

\* the number of cycles of such a B
CycleCount(B) == Cardinality({Component(B, {x}) : x \in VerticesOf(B)})

---------------------------------------------------------------------------
(* Claims about repair_mesh, checked under SpecRepair *)

Repaired == last.op = "repair"

\* the mesh repair_mesh analyzes: the input, welded when weld_tolerance > 0
Welded4Repair ==
    IF last.tol > 0 THEN WeldVertices(pre.v, pre.f, last.tol)
    ELSE [v |-> pre.v, f |-> pre.f, ret |-> 0, vertex_map |-> <<>>]

\* C8: when analysis of the input reports is_watertight, repair_mesh returns
\* 0 and adds no faces to the face list (with weld_tolerance 0 the face list
\* is the input face list).
C8_RepairWatertightNoOp ==
    (Repaired /\ AnalyzeMesh(pre.v, pre.f).is_watertight) =>
        /\ last.ret = 0
        /\ Len(faces) <= Len(pre.f)
        /\ faces = Welded4Repair.f
        /\ last.tol = 0 => faces = pre.f /\ vertices = pre.v

\* repair of the watertight cube with a tolerance that merges vertices: the
\* input is watertight, vertices were welded, 0 is returned
C8_Witness ==
    /\ Repaired
    /\ pre.f = CubeFaces
    /\ AnalyzeMesh(pre.v, pre.f).is_watertight
    /\ last.tol > 0
    /\ Len(vertices) < Len(pre.v)
    /\ last.ret = 0

\* the number of vertices on the boundary of fs
LoopSize(fs) == Cardinality(VerticesOf(BoundaryPairs(fs)))

\* fs is manifold and its boundary is one simple loop of at least 3 vertices
OneSimpleLoop(fs) ==
    /\ \A e \in EdgePairs(fs) : Incident(fs, e) <= 2
    /\ DisjointSimpleCycles(BoundaryPairs(fs))
    /\ CycleCount(BoundaryPairs(fs)) = 1
    /\ LoopSize(fs) >= 3

\* C9 as stated: for a manifold mesh whose boundary consists of one simple
\* loop of n >= 3 vertices, repair_mesh returns 1, the face count grows by
\* exactly n - 2, and analyze_mesh on the repaired mesh reports
\* is_watertight = true.
C9_Original ==
    (Repaired /\ OneSimpleLoop(pre.f)) =>
        /\ last.ret = 1
        /\ Len(faces) = Len(pre.f) + LoopSize(pre.f) - 2
        /\ AnalyzeMesh(vertices, faces).is_watertight

\* the faces repair_mesh appended to the face list fs0 it analyzed
NewFaces(fs0) == SubSeq(faces, Len(fs0) + 1, Len(faces))

\* C9, corrected: for a mesh that after the welding step of repair_mesh is
\* manifold and has a boundary of one simple loop of n >= 3 vertices,
\* repair_mesh returns 1, the face count of the welded mesh grows by exactly
\* n - 2, analyze_mesh on the repaired mesh reports no boundary edge, and it
\* reports is_watertight = true exactly when no edge the new triangles add
\* across the hole was an edge of the mesh before.
C9_RepairFillsHole ==
    LET w == Welded4Repair
    IN  (Repaired /\ OneSimpleLoop(w.f)) =>
            /\ last.ret = 1
            /\ Len(faces) = Len(w.f) + LoopSize(w.f) - 2
            /\ SubSeq(faces, 1, Len(w.f)) = w.f
            /\ AnalyzeMesh(vertices, faces).boundary_edges = 0
            /\ AnalyzeMesh(vertices, faces).is_watertight =
                  ((EdgePairs(NewFaces(w.f)) \ BoundaryPairs(w.f))
                       \cap EdgePairs(w.f) = {})

\* the STL-style cube without its last two triangles repaired with a welding
\* tolerance: 30 vertices weld to 8, the 4-vertex hole is closed by 2
\* triangles, the result is watertight
C9_Witness ==
    /\ Repaired
    /\ pre.v = StlCubeWithHole.v
    /\ pre.f = StlCubeWithHole.f
    /\ last.tol > 0
    /\ Len(vertices) = 8
    /\ OneSimpleLoop(Welded4Repair.f)
    /\ LoopSize(Welded4Repair.f) = 4
    /\ last.ret = 1
    /\ Len(faces) = 12
    /\ AnalyzeMesh(vertices, faces).is_watertight

\* the repair the code itself reports as failed
StillHoles ==
    \E k \in 1..Len(out) : out[k].text = "WARNING: Mesh still has holes after repair"

\* C10: repair_mesh returns the number of holes filled, or -1 on error: a
\* non-negative result is the number of boundary loops that were
\* triangulated, and a repair that fails is reported by the return value -1.
C10_RepairReturnValue ==
    Repaired =>
        /\ last.ret >= 0 =>
              last.ret = Len(AnalyzeMeshDetailed(Welded4Repair.v, Welded4Repair.f).boundary_loops)
        /\ StillHoles => last.ret = -1

\* the boundary loops repair_mesh triangulates, in order
LoopsFilled == AnalyzeMeshDetailed(Welded4Repair.v, Welded4Repair.f).boundary_loops

\* the number of triangles that fill the first k of the loops: n - 2 for a
\* loop of n vertices
RECURSIVE FillCount(_, _)
FillCount(loops, k) ==
    IF k = 0 THEN 0 ELSE FillCount(loops, k - 1) + (Len(loops[k]) - 2)

\* the triangles appended for loop k: those after the triangles of the loops
\* before it
FillOf(k) ==
    SubSeq(faces, Len(Welded4Repair.f) + FillCount(LoopsFilled, k - 1) + 1,
                  Len(Welded4Repair.f) + FillCount(LoopsFilled, k))

Elems(s) == {s[k] : k \in 1..Len(s)}

\* C11: repair_mesh called with weld_tolerance 0 leaves the vertex list
\* unchanged and every face of the input at its position; the triangles it
\* adds come after them, n - 2 for each boundary loop of n vertices in the
\* order of the loops, and each references only vertices of the loop it fills.
C11_FillOnlyAppends ==
    (Repaired /\ last.tol = 0) =>
        /\ vertices = pre.v
        /\ Len(faces) = Len(pre.f) + FillCount(LoopsFilled, Len(LoopsFilled))
        /\ SubSeq(faces, 1, Len(pre.f)) = pre.f
        /\ \A k \in 1..Len(LoopsFilled) :
               \A t \in Elems(FillOf(k)) : Elems(t) \subseteq Elems(LoopsFilled[k])

\* repair without welding of the two triangles with no common vertex: two
\* loops filled, one triangle appended for each
C11_Witness ==
    /\ Repaired
    /\ last.tol = 0
    /\ pre = [v |-> TwoTriangles.v, f |-> TwoTriangles.f]
    /\ last.ret = 2
    /\ Len(LoopsFilled) = 2
    /\ Len(faces) = 4
    /\ Elems(faces[3]) \cap Elems(faces[4]) = {}

\* the polygons left in triangulate_hole, one after the other, on which the
\* for loop finds no ear
RECURSIVE NoEarSteps(_, _)
NoEarSteps(remaining, vs) ==
    IF Len(remaining) <= 3 THEN <<>>
    ELSE IF FindEar(remaining, 0, vs) >= 0
         THEN NoEarSteps(EraseAt(remaining, FindEar(remaining, 0, vs)), vs)
         ELSE <<remaining>> \o NoEarSteps(EraseAt(remaining, 1), vs)

\* a warning among the lines repair_mesh wrote
Warned ==
    \E k \in 1..Len(out) :
        out[k].text \in {"WARNING: Mesh has non-manifold edges, repair may not succeed",
                         "WARNING: Mesh still has holes after repair"}

\* C12: whenever the ear search of triangulate_hole finds no non-degenerate
\* ear in the polygon that remains, the triangle of its first three vertices
\* is emitted at that point, its second vertex is removed (no later triangle
\* of the loop references it), and the caller gets a warning.
C12_FallbackWarned ==
    Repaired =>
        \A k \in 1..Len(LoopsFilled) :
            \A r \in Elems(NoEarSteps(LoopsFilled[k], vertices)) :
                LET at == Len(LoopsFilled[k]) - Len(r) + 1
                IN  /\ FillOf(k)[at] = <<r[1], r[2], r[3]>>
                    /\ \A j \in (at + 1)..Len(FillOf(k)) : r[2] \notin Elems(FillOf(k)[j])
                    /\ Warned

---------------------------------------------------------------------------
(* Claims about main() of the command-line program, checked under SpecMain *)

\* make_level_set3 has been called
Handed == level_set.called

\* repair_mesh has been called
RepairCalled == "repair_mesh" \in Elems(steps)

\* C13: when --fix is not given or the mesh analyzes as watertight, the
\* analysis results are printed and the vertex and face lists handed to
\* make_level_set3 are exactly the lists that were analyzed; repair_mesh is
\* called only when --fix is set and the analysis reports the mesh is not
\* watertight.
C13_RepairOptional ==
    /\ (Handed /\ ~(args.fix_mesh /\ ~analysis.is_watertight)) =>
           /\ "print_mesh_analysis" \in Elems(steps)
           /\ last.op = "analyze"
           /\ analysis = AnalyzeMesh(pre.v, pre.f)
           /\ level_set.vertList = pre.v
           /\ level_set.faceList = pre.f
    /\ RepairCalled => (args.fix_mesh /\ ~analysis.is_watertight)

\* a mesh with a hole handed to make_level_set3 as analyzed, without --fix
C13_Witness ==
    /\ Handed
    /\ ~args.fix_mesh
    /\ ~analysis.is_watertight
    /\ analysis.num_holes = 1
    /\ ~RepairCalled
    /\ level_set.faceList = pre.f
    /\ level_set.faceList # <<>>

\* the errors main() reports with `return 1`: no positional after the input
\* file, a grid size that is not positive, a loader that returned false
MissingDimensions == args.dimensions = <<>>

BadGridDimension ==
    /\ args.is_stl
    /\ args.dimensions # <<>>
    /\ \E k \in 1..(IF Len(args.dimensions) <= 2 THEN 1 ELSE 3) :
           Trunc(args.dimensions[k]) <= 0

LoadError == Elems(steps) \cap {"load_stl failed", "load_obj failed"} # {}

\* write_sdf_binary returned false
WriteError == "write_sdf_binary" \in Elems(steps) /\ ~sdf_file.written

Positive(x) == FLess(FromInt(0), x)

\* C15: if any grid dimension is <= 0 or the cell size dx is <= 0 (given
\* directly in OBJ mode, or derived as mesh_size / (N - 2*padding) in STL
\* mode), the job aborts with an invalid-argument error: make_level_set3 is
\* never called with a dimension or a dx that is not positive.
C15_InvalidGridAborts ==
    Handed =>
        /\ Positive(level_set.dx)
        /\ level_set.ni > 0
        /\ level_set.nj > 0
        /\ level_set.nk > 0

\* the grid handed to make_level_set3: its low corner and its high corner
\* origin + N * dx on axis a
GridLow(a) == level_set.origin[a]

GridHigh(a) ==
    FAdd(level_set.origin[a],
         FMul(FromInt(<<level_set.ni, level_set.nj, level_set.nk>>[a]), level_set.dx))

\* the bounding box of the mesh handed to make_level_set3
MeshLow(a) == BoxMin(level_set.vertList)[a]
MeshHigh(a) == BoxMax(level_set.vertList)[a]

\* p cells
Cells(p) == FMul(FromInt(p), level_set.dx)

\* a call of make_level_set3 with a finite cell size > 0
HandedValid == Handed /\ IsFinite(level_set.dx) /\ Positive(level_set.dx)

\* C16: the effective padding p is always >= 1, and in every mode the grid
\* passed to make_level_set3 contains the mesh bounding box with at least p
\* cells of empty space on the low and on the high side of every axis.
\* (Stated for the runs whose cell size is a positive number.)
C16_PaddingGuarantee ==
    HandedValid =>
        /\ padding >= 1
        /\ \A a \in 1..3 :
               /\ FLeq(GridLow(a), FSub(MeshLow(a), Cells(padding)))
               /\ FLeq(FAdd(MeshHigh(a), Cells(padding)), GridHigh(a))

\* the padding given as a positional: the second value of `dx padding` (OBJ)
\* and of `Nx padding` (STL), the fourth value of `Nx Ny Nz padding` (STL)
HasPositionalPadding ==
    IF args.is_stl THEN Len(args.dimensions) \in {2, 4} ELSE Len(args.dimensions) >= 2

PositionalPadding ==
    AtLeastOne(Trunc(args.dimensions[IF args.is_stl /\ Len(args.dimensions) = 4 THEN 4 ELSE 2]))

\* the extent of the mesh handed to make_level_set3 on axis a
MeshSize(a) == FSub(MeshHigh(a), MeshLow(a))

\* the cell size of the STL modes for the padding p
StlDx(p) ==
    IF Len(args.dimensions) <= 2
    THEN FDiv(MeshSize(1), FromInt(Trunc(args.dimensions[1]) - 2 * p))
    ELSE FMax(FDiv(MeshSize(1), FromInt(Trunc(args.dimensions[1]) - 2 * p)),
              FMax(FDiv(MeshSize(2), FromInt(Trunc(args.dimensions[2]) - 2 * p)),
                   FDiv(MeshSize(3), FromInt(Trunc(args.dimensions[3]) - 2 * p))))

\* C17: a padding given as a positional (second value of `Nx padding`, fourth
\* value of `Nx Ny Nz padding`, second positional in OBJ mode) is the padding
\* main() uses, overriding the default, and in STL mode the cell size handed
\* to make_level_set3 is computed with it.
C17_PositionalPadding ==
    (Handed /\ HasPositionalPadding) =>
        /\ padding = PositionalPadding
        /\ args.is_stl => level_set.dx = StlDx(PositionalPadding)

\* the ceiling of a finite float
Ceil(x) == -((-x.n) \div x.d)

\* the extent of the padded bounding box on axis a, in cells
PaddedCells(a) ==
    FDiv(FAdd(MeshSize(a), FAdd(Cells(padding), Cells(padding))), level_set.dx)

\* C18: in cell-size (OBJ) mode the grid origin is the mesh bounding-box
\* minimum minus padding*dx on every axis, and the grid size on each axis is
\* the ceiling of (padded bounding-box extent / dx), so that the grid covers
\* the whole padded bounding box.  (Stated for the runs whose cell size is a
\* positive number.)
C18_CellSizeGrid ==
    (HandedValid /\ ~args.is_stl) =>
        \A a \in 1..3 :
            /\ GridLow(a) = FSub(MeshLow(a), Cells(padding))
            /\ <<level_set.ni, level_set.nj, level_set.nk>>[a] = Ceil(PaddedCells(a))
            /\ FLeq(FAdd(MeshHigh(a), Cells(padding)), GridHigh(a))

\* the grid sizes given on the command line of an STL run (Ny and Nz only in
\* manual mode)
GivenSize(a) == Trunc(args.dimensions[a])

\* C19: in grid-count (STL) mode the grid dimensions passed to
\* make_level_set3, and so those of the SDF written, equal the target
\* (Nx, Ny, Nz) exactly, dx is derived from the mesh extent and the targets,
\* and the grid box [origin, origin + N*dx] is centred on the centre of the
\* mesh bounding box on every axis.
C19_GridCountGrid ==
    (Handed /\ args.is_stl) =>
        /\ <<level_set.ni, level_set.nj, level_set.nk>> = target
        /\ level_set.phi_grid = target
        /\ sdf_file.written => sdf_file.dims = target
        /\ target[1] = GivenSize(1)
        /\ Len(args.dimensions) >= 3 => (target[2] = GivenSize(2) /\ target[3] = GivenSize(3))
        /\ level_set.dx = StlDx(padding)
        /\ \A a \in 1..3 :
               FAdd(GridLow(a), GridHigh(a)) = FAdd(MeshLow(a), MeshHigh(a))

\* the place of a step in the pipeline
Rank(name) ==
    CASE name \in {"load_stl", "load_obj", "load_stl failed", "load_obj failed"} -> 1
      [] name = "weld_vertices" -> 2
      [] name = "analyze_mesh" -> 3
      [] name = "print_mesh_analysis" -> 4
      [] name = "repair_mesh" -> 5
      [] name = "make_level_set3" -> 6
      [] name = "write_sdf_binary" -> 7

\* C20: on every run the steps taken are, in this order, the load, the weld
\* with tolerance 1e-5, the analysis, the repair (which alone may be left
\* out) and make_level_set3, and the SDF file is written only after
\* make_level_set3 has returned; after a failed load no step is taken.
C20_PipelineOrder ==
    /\ \A k \in 1..Len(steps) :
           /\ k = 1 => Rank(steps[k]) = 1
           /\ k > 1 => \/ Rank(steps[k]) = Rank(steps[k - 1]) + 1
                       \/ Rank(steps[k]) = 6 /\ Rank(steps[k - 1]) = 4
    /\ (last.op = "weld" /\ pc # "none") => last.tol = WeldTolerance
    /\ Handed = ("make_level_set3" \in Elems(steps))
    /\ Handed => level_set.vertList = vertices /\ level_set.faceList = faces
    /\ sdf_file.written => (Handed /\ steps[Len(steps)] = "write_sdf_binary")
    /\ LoadError => /\ Len(steps) = 1
                    /\ pc = "exit"
                    /\ vertices = <<>>
                    /\ ncalls = 0

\* a run with --fix that went through every step and wrote the file
C20_Witness ==
    /\ pc = "exit"
    /\ exit_code = 0
    /\ sdf_file.written
    /\ steps = <<"load_stl", "weld_vertices", "analyze_mesh", "print_mesh_analysis",
                 "repair_mesh", "make_level_set3", "write_sdf_binary">>
    /\ prev.op = "analyze"
    /\ last.op = "repair"
    /\ last.ret = 1

---------------------------------------------------------------------------
(* Claims about the boundary walk of analyze_mesh_detailed, checked under  *)
(* SpecAnalyze                                                             *)

\* the vertices of the sequence l are pairwise distinct
Distinct(l) == \A a, b \in 1..Len(l) : a # b => l[a] # l[b]

\* every vertex of l is joined to the one after it, and the last to the
\* first, by a pair of B
ClosedCycle(l, B) == \A a \in 1..Len(l) : Edge(l[a], l[(a % Len(l)) + 1]) \in B

\* C24: every boundary loop the analyzer records is a simple closed cycle of
\* boundary edges: its vertices are pairwise distinct, consecutive vertices
\* are joined by a boundary edge, and the last vertex is joined to the first
\* by a boundary edge.
C24_LoopsAreCycles ==
    Analyzed =>
        \A k \in 1..Len(boundary_loops) :
            /\ Distinct(boundary_loops[k])
            /\ ClosedCycle(boundary_loops[k], BoundaryPairs(faces))

\* the boundary adjacency and the boundary vertices analyze_mesh_detailed
\* builds for the face list fs
BoundaryOf(fs) ==
    LET edge_triangles == EdgeTriangles(<<>>, fs, 1)
    IN  Classify(ClassifyStart, edge_triangles, SortedEdges(DOMAIN edge_triangles), 1)

\* every walk of the loop over boundary_vertices from start k on, kept or
\* discarded, in the order the walks are made
RECURSIVE Walks(_, _, _, _)
Walks(boundary_adj, starts, k, visited) ==
    IF k > Len(starts) THEN <<>>
    ELSE IF starts[k] \in visited THEN Walks(boundary_adj, starts, k + 1, visited)
    ELSE LET w == Walk(boundary_adj, visited, <<>>, starts[k], UINT_MAX, starts[k])
         IN  <<w.loop>> \o Walks(boundary_adj, starts, k + 1, w.visited)

AllWalks(fs) ==
    Walks(BoundaryOf(fs).boundary_adj, SortedVerts(BoundaryOf(fs).boundary_vertices), 1, {})

\* the walks one after the other: the vertices visited, one for each step
RECURSIVE Flat(_)
Flat(ws) == IF ws = <<>> THEN <<>> ELSE Head(ws) \o Flat(Tail(ws))

\* the walks of at least 3 vertices, in order
RECURSIVE Kept(_)
Kept(ws) ==
    IF ws = <<>> THEN <<>>
    ELSE (IF Len(Head(ws)) >= 3 THEN <<Head(ws)>> ELSE <<>>) \o Kept(Tail(ws))

\* C25: boundary-loop discovery ends for every face list, also a non-manifold
\* one and one with faces that repeat an index: every step of a walk visits a
\* boundary vertex no step visited before, so a vertex is in at most one walk
\* and there is at most one step for each boundary vertex; the walks of fewer
\* than 3 vertices are discarded and not counted in num_holes.
C25_WalksTerminate ==
    Analyzed =>
        LET ws == AllWalks(faces)
        IN  /\ Distinct(Flat(ws))
            /\ Elems(Flat(ws)) \subseteq BoundaryOf(faces).boundary_vertices
            /\ Len(Flat(ws)) <= Cardinality(BoundaryOf(faces).boundary_vertices)
            /\ boundary_loops = Kept(ws)
            /\ analysis.num_holes = Len(Kept(ws))

\* a face that repeats an index next to a triangle, analyzed: there are
\* boundary edges, the two walks made end after one and two steps, and
\* neither is a hole
C25_Witness ==
    /\ Analyzed
    /\ faces = << <<0, 0, 1>>, <<0, 1, 2>> >>
    /\ analysis.boundary_edges = 3
    /\ AllWalks(faces) = << <<0>>, <<1, 2>> >>
    /\ boundary_loops = <<>>
    /\ analysis.num_holes = 0

---------------------------------------------------------------------------
(* Claims about triangulate_hole, checked under SpecHole *)

HoleReturned == hole_pc = "returned"

\* C26: ear clipping always terminates and emits exactly n - 2 triangles for
\* a loop of n >= 3 vertices, with ears or with the fallback, and none for a
\* shorter loop: every iteration of the while loop emits one triangle and
\* removes exactly one vertex, and the last triangle is emitted when exactly
\* three vertices remain.
C26_EarClippingTerminates ==
    /\ [](HoleReturned =>
             /\ Len(hole_result) = IF Len(hole_loop) >= 3 THEN Len(hole_loop) - 2 ELSE 0
             /\ hole_result = TriangulateHole(hole_loop, vertices))
    /\ [][(hole_pc = "while" /\ hole_pc' = "while") =>
              /\ Len(hole_result') = Len(hole_result) + 1
              /\ Len(hole_remaining') = Len(hole_remaining) - 1
              /\ Elems(hole_remaining') \subseteq Elems(hole_remaining)]_vars
    /\ [][(hole_pc = "while" /\ hole_pc' = "returned") =>
              /\ Len(hole_remaining) = 3
              /\ hole_result' = Append(hole_result, <<hole_remaining[1], hole_remaining[2],
                                                      hole_remaining[3]>>)]_vars
    /\ <>HoleReturned

\* a loop of five vertices on one line triangulated: no ear was found in any
\* iteration, and three triangles were emitted
C26_Witness ==
    /\ HoleReturned
    /\ Len(hole_loop) = 5
    /\ Len(NoEarSteps(hole_loop, vertices)) = 2
    /\ Len(hole_result) = 3
    /\ Len(hole_remaining) = 3

\* the vertex of the polygon r at position i (1-based), cyclically
Cyc(r, i) == r[((i - 1) % Len(r)) + 1]

\* the cross product of the two edges of r that meet at position i
CornerNormal(r, i, vs) ==
    cross(Sub3(At(vs, Cyc(r, i)), At(vs, Cyc(r, i - 1 + Len(r)))),
          Sub3(At(vs, Cyc(r, i + 1)), At(vs, Cyc(r, i))))

\* the positions of r whose two edges have a non-degenerate cross product
Ears(r, vs) == {i \in 1..Len(r) : CornerNormal(r, i, vs) # <<0, 0, 0>>}

\* r without the vertex at position i, the others in their order
Without(r, i) == [a \in 1..(Len(r) - 1) |-> IF a < i THEN r[a] ELSE r[a + 1]]

\* C27: while more than three loop vertices remain, the ear chosen is the one
\* at the smallest position i whose two incident edges have a non-degenerate
\* cross product; the triangle emitted is (remaining[i-1], remaining[i],
\* remaining[i+1]) with cyclic indexing, in the order of the loop, and exactly
\* remaining[i] is removed, the other vertices keeping their order.
C27_EarSelection ==
    [][(hole_pc = "while" /\ Len(hole_remaining) > 3
            /\ Ears(hole_remaining, vertices) # {}) =>
           LET i == CHOOSE a \in Ears(hole_remaining, vertices) :
                        \A b \in Ears(hole_remaining, vertices) : a <= b
           IN  /\ hole_result' =
                      Append(hole_result,
                             <<Cyc(hole_remaining, i - 1 + Len(hole_remaining)),
                               Cyc(hole_remaining, i),
                               Cyc(hole_remaining, i + 1)>>)
               /\ hole_remaining' = Without(hole_remaining, i)]_vars

\* the loop 1,2,3,4,0 over vertices of which 0, 1, 2 lie on a line: the
\* first position is skipped (0, 1, 2 are its corner), the ear taken is at
\* the second position, and the next ear (0,1,3) is at the first position,
\* across the end of the polygon
C27_Witness ==
    /\ HoleReturned
    /\ vertices = BentLine(MaxLoop)
    /\ hole_loop = <<1, 2, 3, 4, 0>>
    /\ hole_result[1] = <<1, 2, 3>>
    /\ hole_result[2] = <<0, 1, 3>>
    /\ hole_remaining = <<3, 4, 0>>

---------------------------------------------------------------------------
(* Claims on make_level_set.                                              *)

\* the triangles that produce a distance for voxel v in the exact pass
Producers(j, v) == {t \in TriangleIds(j) : ~Skipped(j, t) /\ v \in Footprint(j, t)}

\* the exact pass run by one thread over triangles t, t+1, ... in order
RECURSIVE SingleThreaded(_, _, _)
SingleThreaded(g, j, t) ==
    IF t >= Len(j.triangles) THEN g
    ELSE SingleThreaded(Exact(g, j, t), j, t + 1)

\* the state between the barrier of the exact pass and the sweeps
AfterBarrier == job_pc = "parity"

\* C21: for every partition of the triangles into worker batches and every
\* interleaving of the workers, after the barrier at the end of the exact
\* narrow-band pass phi[v] is the minimum distance produced by any triangle
\* whose footprint contains v, closest[v] is the id of a triangle achieving
\* it, the smallest such id on a tie, and both equal the single-threaded
\* result; a voxel in no footprint keeps the sentinel and -1
C21_ReductionContract ==
    AfterBarrier =>
        /\ \A v \in Voxels(job) :
               IF Producers(job, v) = {}
               THEN phi[v] = Sentinel(job) /\ closest[v] = -1
               ELSE /\ closest[v] \in Producers(job, v)
                    /\ phi[v] = Distance(job, v, closest[v])
                    /\ \A t \in Producers(job, v) :
                           /\ ~FLess(Distance(job, v, t), phi[v])
                           /\ Distance(job, v, t) = phi[v] => closest[v] <= t
        /\ [phi |-> phi, closest |-> closest] = SingleThreaded(Fresh(job), job, 0)

\* the tetrahedron after the barrier: the voxel (0, 1, 1) is as far from
\* triangle 2 as from triangle 3 and closest holds the smaller id; at the
\* voxel (0, 0, 0) triangle 3 is the nearest of the four
C21_Witness ==
    /\ AfterBarrier
    /\ job.triangles = Tetrahedron.f
    /\ scratch = <<>>
    /\ Producers(job, <<0, 1, 1>>) = 0..3
    /\ phi[<<0, 0, 0>>] = Float(1, 3)
    /\ closest[<<0, 0, 0>>] = 3
    /\ Distance(job, <<0, 1, 1>>, 2) = Distance(job, <<0, 1, 1>>, 3)
    /\ phi[<<0, 1, 1>>] = FromInt(3)
    /\ closest[<<0, 1, 1>>] = 2

\* an odd counter
Odd(count) == count % 2 = 1

\* the voxels of job j classified inside
InsideVoxels(j) == {v \in Voxels(j) : Odd(Crossings(j, v, 0))}

\* job j with the triangles at the positions of S turned over
WithFlipped(j, S) == [j EXCEPT !.triangles = Flipped(j.triangles, S)]

\* the contribution of triangle t of job j at voxel v, and the same with the
\* winding of the triangle turned over
Contribution(j, v, t) ==
    Crossing(Center(j, v), Corner(j, t, 1), Corner(j, t, 2), Corner(j, t, 3))

FlippedContribution(j, v, t) ==
    Crossing(Center(j, v), Corner(j, t, 1), Corner(j, t, 3), Corner(j, t, 2))

\* C22: sign application negates phi at a voxel exactly when its inside
\* counter is odd
C22_NegatedIffOdd ==
    [][job_pc = "sign" /\ job_pc' = "returned" =>
          \A v \in Voxels(job) :
              phi'[v] = IF Odd(inside[v]) THEN FNeg(phi[v]) ELSE phi[v]]_vars

\* C22: a crossing contributes +1 or -1 (0 when the ray misses the triangle
\* or the voxel is below it), and the opposite with the winding turned over
C22_CrossingsFlip ==
    \A v \in Voxels(job) : \A t \in TriangleIds(job) :
        /\ Contribution(job, v, t) \in {-1, 0, 1}
        /\ FlippedContribution(job, v, t) = -Contribution(job, v, t)

\* C22: once the columns are counted the voxels with an odd counter are those
\* classified inside, and they are the same for the mesh with the winding of
\* any subset of its triangles turned over
C22_SubsetsFlip ==
    job_pc \in {"sign", "returned"} =>
        /\ {v \in Voxels(job) : Odd(inside[v])} = InsideVoxels(job)
        /\ \A S \in SUBSET (1..Len(job.triangles)) :
               InsideVoxels(WithFlipped(job, S)) = InsideVoxels(job)

\* C22: the parity sign is robust to winding inversion
C22_ParityRobust == C22_NegatedIffOdd /\ [](C22_CrossingsFlip /\ C22_SubsetsFlip)

\* the tetrahedron with its last face turned over, returned: the voxel in it
\* was crossed once and is negative, the voxel above it was crossed twice
\* in the same sense, its counter is -2, and it is positive
C22_Witness ==
    /\ job_pc = "returned"
    /\ job.triangles = Flipped(Tetrahedron.f, {4})
    /\ inside[<<0, 0, 0>>] = -1
    /\ phi[<<0, 0, 0>>] = FNeg(Float(1, 3))
    /\ inside[<<0, 0, 1>>] = -2
    /\ phi[<<0, 0, 1>>] = Float(1, 3)
    /\ InsideVoxels(WithFlipped(job, {4})) = {<<0, 0, 0>>}

\* the job runs on an empty mesh
EmptyMesh == job.triangles = <<>>

\* phi holds the sentinel, a positive value, at every voxel
AllSentinel ==
    \A v \in Voxels(job) : phi[v] = Sentinel(job) /\ FLess(FromInt(0), phi[v])

\* C23: when the triangle list is empty the job completes (it returns, and
\* nothing fails on the way) and the phi it returns, like the phi of every
\* step since its allocation, holds the positive sentinel at every voxel
C23_EmptyMesh ==
    /\ [](EmptyMesh /\ job_pc # "entered" => AllSentinel)
    /\ [](EmptyMesh => <>(job_pc = "returned"))

\* an empty mesh on the grid of 2 x 2 x 2 voxels, returned: every worker
\* has counted its columns, no voxel has a closest
\* triangle or a crossing, and phi is 432 = (3 * diagonal)^2 at every voxel
C23_Witness ==
    /\ EmptyMesh
    /\ job_pc = "returned"
    /\ Voxels(job) = (0..1) \X (0..1) \X (0..1)
    /\ \A w \in Workers : workers[w].counted
    /\ \A v \in Voxels(job) : phi[v] = FromInt(432) /\ closest[v] = -1 /\ inside[v] = 0

====
